---------------------------- MODULE Spec2Model ----------------------------
(***************************************************************************)
(* A model of the DVID datastore core: the datastore.Service that couples  *)
(* an open storage engine with the repos (version DAGs), the persistence   *)
(* of repo metadata on every mutation, UUID resolution, the capability     *)
(* interfaces of package storage and the versioned key-value contract.     *)
(***************************************************************************)
EXTENDS Integers, Sequences, FiniteSets, TLC

(***************************************************************************)
(* Bounds of the model.                                                    *)
(***************************************************************************)
UUIDLen == 2        \* hex characters of a UUID
MaxVersions == 2    \* versions (DAG nodes) allocated while the Service is exercised
MaxResolved == 3    \* versions allocated while UUID resolution is exercised
MaxStoreOps == 3    \* key-value mutations issued against the store
MaxFaults == 1      \* writes the backend fails during one run
MaxKeyLen == 2      \* bytes of a generated key or key body
MaxStored == 3      \* Put and Delete calls that filled the store before a range is read
MaxChunkHandlers == 2  \* runtime.NumCPU(): the handler tokens of the server
MaxPathLen == 2     \* segments of a path setting of the configuration
MaxInstanceID == 3  \* the largest local id, reserved: instances have ids below it

Hex == {"a", "b"}
UUIDs == [1..UUIDLen -> Hex]
NilUUID == <<>>

DataNames == {"d1"}
TypeNames == {"keyvalue", "nosuchtype"}
CompiledTypes == {"keyvalue"}
Configs == {0, 1}

VARIABLES
    hasRepos,      \* s.Repos != nil
    list,          \* s.Repos.list: the in-memory repos, in creation order
    newIDs,        \* allocation counters for repo and version ids
    uuidGen,       \* the UUIDs the generator will hand out next
    faults,        \* writes the backend may still fail
    diskRegistry,  \* the registry as persisted by Repos.Put
    diskRepos,     \* the repo descriptors as persisted by Repo.Put, by RepoID
    ret,           \* the last call and what it returned
    kv,            \* the key-value pairs of the backend, by full key
    hist,          \* per (instance, version, tkey): what the context last wrote
    rawUsed,       \* whether RawPut or RawDelete has been called
    storeOps,      \* key-value mutations issued so far
    engine,        \* the key-value storage engine: its methods and its state
    gengine,       \* the graph storage engine: its methods and its state
    service,       \* whether Open has returned a Service
    rq,            \* the RawRangeQuery in progress: what is left and what was sent
    pr,            \* the ProcessRange in progress: what is left, what was dispatched
    srv,           \* package server: the handler tokens, the load monitor and Shutdown
    tomlConfig,    \* package server: the configuration read from the TOML file
    calls,         \* the Service calls in progress, one per caller
    gni            \* the getNextInstance in progress: its goroutines and result variables

svcVars == <<hasRepos, list, newIDs, uuidGen, faults, diskRegistry, diskRepos>>
storeVars == <<kv, hist, rawUsed, storeOps>>
openVars == <<engine, gengine, service>>
iterVars == <<rq, pr>>
procVars == <<srv, tomlConfig, calls, gni>>
backendVars == <<storeVars, openVars, iterVars, procVars>>
vars == <<svcVars, ret, storeVars, openVars, iterVars, procVars>>

(***************************************************************************)
(* Storage engines and the capability interfaces of package storage.  An   *)
(* engine is known by the groups of methods it has; it implements an       *)
(* interface when it has every group the interface asks for.               *)
(***************************************************************************)
KVMethods == {"Store", "Get", "OrderedGet", "Set", "OrderedSet", "Batch"}
GraphMethods == {"Store", "GraphGet", "GraphSet"}

Requires(iface) ==
    CASE iface = "KeyValueGetter" -> {"Get"}
      [] iface = "OrderedKeyValueGetter" -> {"Get", "OrderedGet"}
      [] iface = "KeyValueSetter" -> {"Set"}
      [] iface = "OrderedKeyValueSetter" -> {"Set", "OrderedSet"}
      [] iface = "KeyValueDB" -> {"Store", "Get", "Set"}
      [] iface = "OrderedKeyValueDB" -> {"Store", "Get", "OrderedGet", "Set", "OrderedSet"}
      [] iface = "Batcher" -> {"Batch"}
      [] iface = "GraphGetter" -> {"GraphGet"}
      [] iface = "GraphSetter" -> {"GraphSet"}
      [] iface = "GraphDB" -> {"Store", "GraphGet", "GraphSet"}

\* The type assertion e.(iface).
Implements(e, iface) == Requires(iface) \subseteq e.methods

NoEngine == [methods |-> {}, state |-> "none"]

(***************************************************************************)
(* Package server: the handler tokens.  init() fills the buffered channel  *)
(* HandlerToken with MaxChunkHandlers tokens and starts the load monitor.  *)
(***************************************************************************)
TicksPerSecond == 100
ShutdownWaits == 20

\* The state init() leaves: a full token pool, no handler, Shutdown not called.
ServerInit ==
    [tokens |-> MaxChunkHandlers, running |-> 0,
     ticks |-> 0, ActiveHandlers |-> 0, curActiveHandlers |-> 0,
     pc |-> "serving", waits |-> 0, active |-> 0]

\* No configuration has been loaded, no Service call is in progress and
\* getNextInstance is not running.
NoConfig == [loaded |-> FALSE]
NoCalls == <<>>
NoNext == [state |-> "none"]

\* No range query and no range iteration has been started.
NoQuery == [state |-> "none"]
NoRange == [state |-> "none"]

(***************************************************************************)
(* Results of a call.                                                      *)
(***************************************************************************)
Ret(op, arg, out, dID, vID, err) ==
    [op |-> op, arg |-> arg, out |-> out, dID |-> dID, vID |-> vID, err |-> err]

NoCall == Ret("none", NilUUID, NilUUID, 0, 0, "nil")

(***************************************************************************)
(* Repos and their DAG (in-memory).                                        *)
(***************************************************************************)
Node(parents, locked) == [Parents |-> parents, Children |-> <<>>, Locked |-> locked]

\* Repos.newRepo: a repo with a single unlocked root node.
RepoNew(repoID, root, vID) ==
    [RepoID |-> repoID, Root |-> root,
     VersionMap |-> (root :> vID),
     DAG |-> (root :> Node(<<>>, FALSE)),
     DataMap |-> <<>>]

\* (mutant) Repo.Lock flips the lock flag instead of setting it.
RepoLockToggles(repo, u) == [repo EXCEPT !.DAG[u].Locked = ~@]

\* Repo.Lock: the node becomes locked; locking a locked node changes nothing.
RepoLock(repo, u) == [repo EXCEPT !.DAG[u].Locked = TRUE]

\* (mutant) Repos.newChild records the child without linking it to its parent.
RepoNewChildUnlinked(repo, parent, child, vID) ==
    [repo EXCEPT !.VersionMap = @ @@ (child :> vID),
                 !.DAG = @ @@ (child :> Node(<<parent>>, FALSE))]

\* The in-memory part of Repos.newChild once the parent has been found locked.
RepoNewChild(repo, parent, child, vID) ==
    [repo EXCEPT !.VersionMap = @ @@ (child :> vID),
                 !.DAG = [@ EXCEPT ![parent].Children = Append(@, child)]
                            @@ (child :> Node(<<parent>>, FALSE))]

\* Repos.newChild's error: the parent must be a version of some repo and locked.
ReposNewChildErr(l, parent) ==
    IF \A i \in 1..Len(l) : parent \notin DOMAIN l[i].VersionMap THEN "NotFound"
    ELSE IF \E i \in 1..Len(l) : parent \in DOMAIN l[i].VersionMap
                                   /\ ~l[i].DAG[parent].Locked THEN "LockViolation"
    ELSE "nil"

\* Repo.newData: fails if the name exists or the type is not compiled in.
RepoNewDataOK(repo, name, type) ==
    name \notin DOMAIN repo.DataMap /\ type \in CompiledTypes

\* Instance ids are unique within one repo.
RepoNewData(repo, name, type, config) ==
    [repo EXCEPT !.DataMap =
        @ @@ (name :> [Type |-> type,
                       InstanceID |-> Cardinality(DOMAIN repo.DataMap) + 1,
                       Config |-> config])]

\* Repo.modifyData: fails if there is no data of that name.
RepoModifyDataOK(repo, name) == name \in DOMAIN repo.DataMap

RepoModifyData(repo, name, config) == [repo EXCEPT !.DataMap[name].Config = config]

\* Repos.RepoFromUUID: the index in list of the repo holding version u, 0 if none.
RepoFromUUID(u) ==
    IF \E i \in 1..Len(list) : u \in DOMAIN list[i].VersionMap
    THEN CHOOSE i \in 1..Len(list) : u \in DOMAIN list[i].VersionMap
    ELSE 0

\* What Repos.Put serializes: the list of repos known to the datastore.
Registry(l) == [i \in 1..Len(l) |-> [RepoID |-> l[i].RepoID, Root |-> l[i].Root]]

\* The outcomes a write to the backend can have.
PutOutcomes == IF faults > 0 THEN BOOLEAN ELSE {TRUE}

\* The failures left once a write has had outcome ok.
Spend(ok) == IF ok THEN faults ELSE faults - 1

\* Repo.Put: on success the descriptor stored under the repo's id is the repo.
RepoPut(ok, repo) ==
    IF ok THEN (repo.RepoID :> repo) @@ diskRepos ELSE diskRepos

\* Repos.Put: on success the stored registry is the one of the given list.
ReposPut(ok, l) == IF ok THEN Registry(l) ELSE diskRegistry

PutErr(ok) == IF ok THEN "nil" ELSE "Backend"

\* A call that returns an error before it changed anything.
Fails(op, arg, err) ==
    /\ ret' = Ret(op, arg, NilUUID, 0, 0, err)
    /\ UNCHANGED <<svcVars, backendVars>>

(***************************************************************************)
(* Service operations.                                                     *)
(***************************************************************************)
NewRepo ==
    IF ~hasRepos THEN Fails("NewRepo", NilUUID, "NoRepos")
    ELSE
      /\ uuidGen # <<>>
      /\ \E ok1 \in PutOutcomes, ok2 \in PutOutcomes :
           LET repo == RepoNew(newIDs.repo, Head(uuidGen), newIDs.version)
               l == Append(list, repo)
           IN /\ list' = l
              /\ uuidGen' = Tail(uuidGen)
              /\ newIDs' = [newIDs EXCEPT !.repo = @ + 1, !.version = @ + 1]
              /\ diskRegistry' = ReposPut(ok1, l)
              /\ diskRepos' = IF ok1 THEN RepoPut(ok2, repo) ELSE diskRepos
              /\ ret' = IF ~ok1
                        THEN Ret("NewRepo", NilUUID, NilUUID, 0, 0, "Backend")
                        ELSE Ret("NewRepo", NilUUID, repo.Root, repo.RepoID, 0, PutErr(ok2))
              /\ faults' = Spend(ok1 /\ ok2)
              /\ UNCHANGED <<hasRepos, backendVars>>

\* (mutant) NewVersion does not return on the error of newChild.
NewVersionIgnoresErr(parent) ==
    /\ hasRepos
    /\ RepoFromUUID(parent) # 0
    /\ uuidGen # <<>>
    /\ \E ok \in PutOutcomes :
         LET i == RepoFromUUID(parent)
             u == Head(uuidGen)
             repo == RepoNewChild(list[i], parent, u, newIDs.version)
         IN /\ list' = [list EXCEPT ![i] = repo]
            /\ uuidGen' = Tail(uuidGen)
            /\ newIDs' = [newIDs EXCEPT !.version = @ + 1]
            /\ diskRepos' = RepoPut(ok, repo)
            /\ ret' = Ret("NewVersion", parent, u, 0, 0, PutErr(ok))
            /\ faults' = Spend(ok)
            /\ UNCHANGED <<hasRepos, diskRegistry, backendVars>>

NewVersion(parent) ==
    IF ~hasRepos THEN Fails("NewVersion", parent, "NoRepos")
    ELSE IF ReposNewChildErr(list, parent) # "nil"
         THEN Fails("NewVersion", parent, ReposNewChildErr(list, parent))
    ELSE
      /\ uuidGen # <<>>
      /\ \E ok \in PutOutcomes :
           LET i == RepoFromUUID(parent)
               u == Head(uuidGen)
               repo == RepoNewChild(list[i], parent, u, newIDs.version)
           IN /\ list' = [list EXCEPT ![i] = repo]
              /\ uuidGen' = Tail(uuidGen)
              /\ newIDs' = [newIDs EXCEPT !.version = @ + 1]
              /\ diskRepos' = RepoPut(ok, repo)
              /\ ret' = Ret("NewVersion", parent, u, 0, 0, PutErr(ok))
              /\ faults' = Spend(ok)
              /\ UNCHANGED <<hasRepos, diskRegistry, backendVars>>

\* (mutant) NewData persists the repo although newData has failed.
NewDataPutsOnError(u, typename, dataname, config) ==
    /\ hasRepos
    /\ RepoFromUUID(u) # 0
    /\ ~RepoNewDataOK(list[RepoFromUUID(u)], dataname, typename)
    /\ diskRepos' = RepoPut(TRUE, list[RepoFromUUID(u)])
    /\ ret' = Ret("NewData", u, NilUUID, 0, 0, "DataError")
    /\ UNCHANGED <<hasRepos, list, faults, uuidGen, newIDs, diskRegistry, backendVars>>

NewData(u, typename, dataname, config) ==
    IF ~hasRepos THEN Fails("NewData", u, "NoRepos")
    ELSE IF RepoFromUUID(u) = 0 THEN Fails("NewData", u, "NotFound")
    ELSE IF ~RepoNewDataOK(list[RepoFromUUID(u)], dataname, typename)
         THEN Fails("NewData", u, "DataError")
    ELSE
      \E ok \in PutOutcomes :
         LET i == RepoFromUUID(u)
             repo == RepoNewData(list[i], dataname, typename, config)
         IN /\ list' = [list EXCEPT ![i] = repo]
            /\ diskRepos' = RepoPut(ok, repo)
            /\ ret' = Ret("NewData", u, NilUUID, 0, 0, PutErr(ok))
            /\ faults' = Spend(ok)
            /\ UNCHANGED <<hasRepos, uuidGen, newIDs, diskRegistry, backendVars>>

ModifyData(u, dataname, config) ==
    IF ~hasRepos THEN Fails("ModifyData", u, "NoRepos")
    ELSE IF RepoFromUUID(u) = 0 THEN Fails("ModifyData", u, "NotFound")
    ELSE IF ~RepoModifyDataOK(list[RepoFromUUID(u)], dataname)
         THEN Fails("ModifyData", u, "DataError")
    ELSE
      \E ok \in PutOutcomes :
         LET i == RepoFromUUID(u)
             repo == RepoModifyData(list[i], dataname, config)
         IN /\ list' = [list EXCEPT ![i] = repo]
            /\ diskRepos' = RepoPut(ok, repo)
            /\ ret' = Ret("ModifyData", u, NilUUID, 0, 0, PutErr(ok))
            /\ faults' = Spend(ok)
            /\ UNCHANGED <<hasRepos, uuidGen, newIDs, diskRegistry, backendVars>>

\* (mutant) Lock refuses a node that is locked already.
LockRejectsLocked(u) ==
    /\ hasRepos
    /\ RepoFromUUID(u) # 0
    /\ IF list[RepoFromUUID(u)].DAG[u].Locked
       THEN Fails("Lock", u, "LockViolation")
       ELSE /\ list' = [list EXCEPT ![RepoFromUUID(u)] = RepoLock(@, u)]
            /\ diskRepos' = RepoPut(TRUE, RepoLock(list[RepoFromUUID(u)], u))
            /\ ret' = Ret("Lock", u, NilUUID, 0, 0, "nil")
            /\ UNCHANGED <<hasRepos, faults, uuidGen, newIDs, diskRegistry, backendVars>>

\* (mutant) Lock returns after repo.Lock without persisting the repo.
LockWithoutPut(u) ==
    /\ hasRepos
    /\ RepoFromUUID(u) # 0
    /\ list' = [list EXCEPT ![RepoFromUUID(u)] = RepoLock(@, u)]
    /\ ret' = Ret("Lock", u, NilUUID, 0, 0, "nil")
    /\ UNCHANGED <<hasRepos, faults, uuidGen, newIDs, diskRegistry, diskRepos, backendVars>>

Lock(u) ==
    IF ~hasRepos THEN Fails("Lock", u, "NoRepos")
    ELSE IF RepoFromUUID(u) = 0 THEN Fails("Lock", u, "NotFound")
    ELSE
      \E ok \in PutOutcomes :
         LET i == RepoFromUUID(u)
             repo == RepoLock(list[i], u)
         IN /\ list' = [list EXCEPT ![i] = repo]
            /\ diskRepos' = RepoPut(ok, repo)
            /\ ret' = Ret("Lock", u, NilUUID, 0, 0, PutErr(ok))
            /\ faults' = Spend(ok)
            /\ UNCHANGED <<hasRepos, uuidGen, newIDs, diskRegistry, backendVars>>

SaveRepo(u) ==
    IF ~hasRepos THEN Fails("SaveRepo", u, "NoRepos")
    ELSE IF RepoFromUUID(u) = 0 THEN Fails("SaveRepo", u, "NotFound")
    ELSE
      \E ok \in PutOutcomes :
         /\ diskRepos' = RepoPut(ok, list[RepoFromUUID(u)])
         /\ ret' = Ret("SaveRepo", u, NilUUID, 0, 0, PutErr(ok))
         /\ faults' = Spend(ok)
         /\ UNCHANGED <<hasRepos, list, uuidGen, newIDs, diskRegistry, backendVars>>

(***************************************************************************)
(* Specification of the Service with its repos.                            *)
(***************************************************************************)
\* The sequences of distinct UUIDs a generator can produce.
UUIDSeqs(n) == {s \in [1..n -> UUIDs] : \A i, j \in 1..n : i # j => s[i] # s[j]}

FirstUUIDs == CHOOSE s \in UUIDSeqs(MaxVersions) : TRUE

\* An empty store behind a Service opened on engines with every capability.
InitStoreEmpty ==
    /\ kv = <<>>
    /\ hist = <<>>
    /\ rawUsed = FALSE
    /\ storeOps = 0
    /\ engine = [methods |-> KVMethods, state |-> "open"]
    /\ gengine = [methods |-> GraphMethods, state |-> "open"]
    /\ service = TRUE
    /\ rq = NoQuery
    /\ pr = NoRange
    /\ srv = ServerInit
    /\ tomlConfig = NoConfig
    /\ calls = NoCalls
    /\ gni = NoNext

InitService ==
    /\ InitStoreEmpty
    /\ hasRepos \in BOOLEAN
    /\ list = <<>>
    /\ newIDs = [repo |-> 1, version |-> 1]
    /\ uuidGen = FirstUUIDs
    /\ faults \in 0..MaxFaults
    /\ diskRegistry = <<>>
    /\ diskRepos = <<>>
    /\ ret = NoCall

\* The UUIDs of all versions of all repos.
Registered == UNION {DOMAIN list[i].VersionMap : i \in 1..Len(list)}

\* The UUIDs callers pass: every registered one and one that is not registered.
UUIDArgs ==
    Registered \cup (IF UUIDs \subseteq Registered THEN {}
                     ELSE {CHOOSE u \in UUIDs : u \notin Registered})

NextService ==
    \/ NewRepo
    \/ \E u \in UUIDArgs : NewVersion(u)
    \/ \E u \in UUIDArgs, t \in TypeNames, d \in DataNames, c \in Configs : NewData(u, t, d, c)
    \/ \E u \in UUIDArgs, d \in DataNames, c \in Configs : ModifyData(u, d, c)
    \/ \E u \in UUIDArgs : Lock(u)
    \/ \E u \in UUIDArgs : SaveRepo(u)

SpecService == InitService /\ [][NextService]_vars

(***************************************************************************)
(* The versioned key-value contract of package storage.                    *)
(*                                                                         *)
(* A full key is <<class, instance, version, tkey>>; class "D" holds the   *)
(* data keys and class "T" the tombstone keys.  A data context is a pair   *)
(* of an instance and a version of the DAG.                                *)
(***************************************************************************)
Instances == {1}
TKeys == {"k1", "k2"}
Values == {"x", "y"}
EmptyValue == ""
NotFound == "NotFound"

DataKey(i, v, k) == <<"D", i, v, k>>
TombstoneKey(i, v, k) == <<"T", i, v, k>>

\* The version ids of the DAGs.
VersionIDs == UNION {{list[r].VersionMap[u] : u \in DOMAIN list[r].VersionMap} : r \in 1..Len(list)}

\* The version id of the parent of version v, 0 for a root.
ParentVersion(v) ==
    LET r == CHOOSE r \in 1..Len(list) : \E u \in DOMAIN list[r].VersionMap : list[r].VersionMap[u] = v
        u == CHOOSE u \in DOMAIN list[r].VersionMap : list[r].VersionMap[u] = v
        parents == list[r].DAG[u].Parents
    IN IF parents = <<>> THEN 0 ELSE list[r].VersionMap[parents[1]]

Remove(f, key) == [x \in DOMAIN f \ {key} |-> f[x]]

\* (mutant) Get looks at the records of its own version only.
GetOwnVersionOnlyIn(store, i, v, k) ==
    IF DataKey(i, v, k) \in DOMAIN store /\ TombstoneKey(i, v, k) \notin DOMAIN store
    THEN store[DataKey(i, v, k)]
    ELSE NotFound

\* Get in a data context: the walk from the version toward the root stops at
\* the first version holding a tombstone or a value for the tkey.
RECURSIVE GetIn(_, _, _, _)
GetIn(store, i, v, k) ==
    IF v = 0 THEN NotFound
    ELSE IF TombstoneKey(i, v, k) \in DOMAIN store THEN NotFound
    ELSE IF DataKey(i, v, k) \in DOMAIN store THEN store[DataKey(i, v, k)]
    ELSE GetIn(store, i, ParentVersion(v), k)

\* (mutant) Put leaves an existing tombstone of the version in place.
PutKeepsTombstoneIn(store, i, v, k, val) == (DataKey(i, v, k) :> val) @@ store

\* Put in a data context: writes the value under the version's data key and
\* removes a tombstone of this (instance, version, tkey).
PutIn(store, i, v, k, val) ==
    (DataKey(i, v, k) :> val) @@ Remove(store, TombstoneKey(i, v, k))

\* (mutant) Delete removes the value of the closest ancestor as well.
DeleteReachesParentIn(store, i, v, k) ==
    (TombstoneKey(i, v, k) :> EmptyValue)
        @@ Remove(Remove(store, DataKey(i, v, k)), DataKey(i, ParentVersion(v), k))

\* Delete in a data context: the value of this version goes and a tombstone
\* of the version is written.
DeleteIn(store, i, v, k) ==
    (TombstoneKey(i, v, k) :> EmptyValue) @@ Remove(store, DataKey(i, v, k))

\* RawPut and RawDelete act on the one full key they are given.
RawPutIn(store, key, val) == (key :> val) @@ store
RawDeleteIn(store, key) == Remove(store, key)

\* A call on the store: its arguments, its result and whether the store held
\* a tombstone of (instance, version, tkey) when it was made.
StoreRet(op, i, v, k, out) ==
    [op |-> op, inst |-> i, ver |-> v, tkey |-> k, out |-> out,
     hadTomb |-> TombstoneKey(i, v, k) \in DOMAIN kv]

Get(i, v, k) ==
    /\ ret' = StoreRet("Get", i, v, k, GetIn(kv, i, v, k))
    /\ UNCHANGED <<svcVars, procVars, storeVars, openVars, iterVars>>

Put(i, v, k, val) ==
    /\ storeOps < MaxStoreOps
    /\ kv' = PutIn(kv, i, v, k, val)
    /\ hist' = IF rawUsed THEN hist ELSE (<<i, v, k>> :> val) @@ hist
    /\ storeOps' = storeOps + 1
    /\ ret' = StoreRet("Put", i, v, k, val)
    /\ UNCHANGED <<svcVars, procVars, rawUsed, openVars, iterVars>>

Delete(i, v, k) ==
    /\ storeOps < MaxStoreOps
    /\ kv' = DeleteIn(kv, i, v, k)
    /\ hist' = IF rawUsed THEN hist ELSE (<<i, v, k>> :> NotFound) @@ hist
    /\ storeOps' = storeOps + 1
    /\ ret' = StoreRet("Delete", i, v, k, EmptyValue)
    /\ UNCHANGED <<svcVars, procVars, rawUsed, openVars, iterVars>>

RawPut(key, val) ==
    /\ storeOps < MaxStoreOps
    /\ kv' = RawPutIn(kv, key, val)
    /\ hist' = <<>>
    /\ rawUsed' = TRUE
    /\ storeOps' = storeOps + 1
    /\ ret' = StoreRet("RawPut", key[2], key[3], key[4], val)
    /\ UNCHANGED <<svcVars, procVars, openVars, iterVars>>

RawDelete(key) ==
    /\ storeOps < MaxStoreOps
    /\ kv' = RawDeleteIn(kv, key)
    /\ hist' = <<>>
    /\ rawUsed' = TRUE
    /\ storeOps' = storeOps + 1
    /\ ret' = StoreRet("RawDelete", key[2], key[3], key[4], EmptyValue)
    /\ UNCHANGED <<svcVars, procVars, openVars, iterVars>>

(***************************************************************************)
(* Specification of the store under the data contexts of a repo with three *)
(* versions: a chain root - child - grandchild, or a root with two         *)
(* children.  The repos are built by the operations of the DAG.            *)
(***************************************************************************)
StoreUUIDs == CHOOSE s \in UUIDSeqs(3) : TRUE

RootWithChild ==
    RepoNewChild(RepoLock(RepoNew(1, StoreUUIDs[1], 1), StoreUUIDs[1]),
                 StoreUUIDs[1], StoreUUIDs[2], 2)

ChainRepo ==
    RepoNewChild(RepoLock(RootWithChild, StoreUUIDs[2]), StoreUUIDs[2], StoreUUIDs[3], 3)

ForkRepo == RepoNewChild(RootWithChild, StoreUUIDs[1], StoreUUIDs[3], 3)

InitStore ==
    /\ InitStoreEmpty
    /\ hasRepos = TRUE
    /\ list \in {<<ChainRepo>>, <<ForkRepo>>}
    /\ newIDs = [repo |-> 2, version |-> 4]
    /\ uuidGen = <<>>
    /\ faults = 0
    /\ diskRegistry = Registry(list)
    /\ diskRepos = (1 :> list[1])
    /\ ret = NoCall

FullKeys == {"D", "T"} \X Instances \X VersionIDs \X TKeys

\* The value a raw write stores under a full key: tombstones hold no value.
RawValues(key) == IF key[1] = "T" THEN {EmptyValue} ELSE Values

NextStore ==
    \/ \E i \in Instances, v \in VersionIDs, k \in TKeys : Get(i, v, k)
    \/ \E i \in Instances, v \in VersionIDs, k \in TKeys, val \in Values : Put(i, v, k, val)
    \/ \E i \in Instances, v \in VersionIDs, k \in TKeys : Delete(i, v, k)
    \/ \E key \in FullKeys : \E val \in RawValues(key) : RawPut(key, val)
    \/ \E key \in FullKeys : RawDelete(key)

SpecStore == InitStore /\ [][NextStore]_vars

(***************************************************************************)
(* UUID resolution.                                                        *)
(***************************************************************************)
\* The strings callers pass for a UUID: every string of hex characters no
\* longer than a UUID.
UUIDStrings == UNION {[1..n -> Hex] : n \in 0..UUIDLen}

HasPrefix(u, str) == Len(str) <= Len(u) /\ SubSeq(u, 1, Len(str)) = str

\* The registered UUIDs that start with str.
Matches(l, str) ==
    {u \in UNION {DOMAIN l[i].VersionMap : i \in 1..Len(l)} : HasPrefix(u, str)}

\* (mutant) RepoFromString takes a match among several instead of refusing.
RepoFromStringFirstMatch(l, str) ==
    IF Matches(l, str) = {} THEN [err |-> "NotFound", u |-> NilUUID, repo |-> 0]
    ELSE LET u == CHOOSE m \in Matches(l, str) : TRUE
         IN [err |-> "nil", u |-> u,
             repo |-> CHOOSE i \in 1..Len(l) : u \in DOMAIN l[i].VersionMap]

\* Repos.RepoFromString: the one registered UUID that starts with str and the
\* repo holding it; an error when none or several do.
RepoFromString(l, str) ==
    IF Matches(l, str) = {} THEN [err |-> "NotFound", u |-> NilUUID, repo |-> 0]
    ELSE IF Cardinality(Matches(l, str)) > 1
         THEN [err |-> "Ambiguous", u |-> NilUUID, repo |-> 0]
    ELSE LET u == CHOOSE m \in Matches(l, str) : TRUE
         IN [err |-> "nil", u |-> u,
             repo |-> CHOOSE i \in 1..Len(l) : u \in DOMAIN l[i].VersionMap]

\* (mutant) NodeIDFromString returns the version id of the repo's root.
NodeIDFromStringOfRoot(str) ==
    /\ hasRepos
    /\ LET found == RepoFromString(list, str)
       IN ret' = IF found.err # "nil"
                 THEN Ret("NodeIDFromString", str, found.u, 0, 0, found.err)
                 ELSE Ret("NodeIDFromString", str, found.u,
                          list[found.repo].RepoID,
                          list[found.repo].VersionMap[list[found.repo].Root], "nil")
    /\ UNCHANGED <<svcVars, backendVars>>

NodeIDFromString(str) ==
    IF ~hasRepos THEN Fails("NodeIDFromString", str, "NoRepos")
    ELSE LET found == RepoFromString(list, str)
         IN /\ ret' = IF found.err # "nil"
                      THEN Ret("NodeIDFromString", str, found.u, 0, 0, found.err)
                      ELSE Ret("NodeIDFromString", str, found.u,
                               list[found.repo].RepoID,
                               list[found.repo].VersionMap[found.u], "nil")
            /\ UNCHANGED <<svcVars, backendVars>>

(***************************************************************************)
(* Specification of UUID resolution: repos and versions are created with   *)
(* whatever UUIDs the generator yields and strings are resolved.           *)
(***************************************************************************)
\* An order of the UUIDs, to list each set of UUIDs once.
HexRank == CHOOSE f \in [Hex -> 1..Cardinality(Hex)] : \A c, d \in Hex : c # d => f[c] # f[d]

UUIDBefore(u, w) ==
    \E i \in 1..UUIDLen :
        /\ \A j \in 1..(i - 1) : u[j] = w[j]
        /\ HexRank[u[i]] < HexRank[w[i]]

\* The generator yields any n distinct UUIDs.  The order in which it yields
\* them does not matter to resolution, so each set is taken in one order; and
\* resolution only compares characters for equality, so renaming the
\* characters position by position makes the first UUID the least one.
LeastUUID == [j \in 1..UUIDLen |-> CHOOSE c \in Hex : HexRank[c] = 1]

UUIDSets(n) ==
    {s \in UUIDSeqs(n) : /\ s[1] = LeastUUID
                         /\ \A i, j \in 1..n : i < j => UUIDBefore(s[i], s[j])}

InitResolve ==
    /\ InitStoreEmpty
    /\ hasRepos = TRUE
    /\ list = <<>>
    /\ newIDs = [repo |-> 1, version |-> 1]
    /\ uuidGen \in UUIDSets(MaxResolved)
    /\ faults = 0
    /\ diskRegistry = <<>>
    /\ diskRepos = <<>>
    /\ ret = NoCall

NextResolve ==
    \/ NewRepo
    \/ \E u \in Registered : NewVersion(u)
    \/ \E u \in Registered : Lock(u)
    \/ \E str \in UUIDStrings : NodeIDFromString(str)

SpecResolve == InitResolve /\ [][NextResolve]_vars

(***************************************************************************)
(* Properties of the Service and its repos.                                *)
(***************************************************************************)
(* Open, the capability accessors and Shutdown.                            *)
(***************************************************************************)
OpenInputs ==
    [kvOpens : BOOLEAN, methods : SUBSET KVMethods,
     gOpens : BOOLEAN, gmethods : SUBSET GraphMethods,
     loads : BOOLEAN, verifies : BOOLEAN]

OpenRet(in, err) == [op |-> "Open", in |-> in, handle |-> "nil", err |-> err]

\* (mutant) Open verifies the datatypes before it loads the registry.
OpenErrVerifiesFirst(in) ==
    LET e == [methods |-> in.methods, state |-> "open"]
        g == [methods |-> in.gmethods, state |-> "open"]
    IN  IF ~in.kvOpens \/ ~Implements(e, "OrderedKeyValueDB") THEN "ErrorOpening"
        ELSE IF ~in.gOpens \/ ~Implements(g, "GraphDB") THEN "ErrorOpening"
        ELSE IF ~in.verifies THEN "ErrorDatatypeUnavailable"
        ELSE IF ~in.loads THEN "ErrorRepos"
        ELSE "nil"

\* The OpenError of Open for a datastore that behaves as `in` says, taking the
\* checks in the order of the code.
OpenErrOf(in) ==
    LET e == [methods |-> in.methods, state |-> "open"]
        g == [methods |-> in.gmethods, state |-> "open"]
    IN  IF ~in.kvOpens THEN "ErrorOpening"
        ELSE IF ~Implements(e, "OrderedKeyValueGetter") THEN "ErrorOpening"
        ELSE IF ~Implements(e, "OrderedKeyValueSetter") THEN "ErrorOpening"
        ELSE IF ~Implements(e, "OrderedKeyValueDB") THEN "ErrorOpening"
        ELSE IF ~in.gOpens THEN "ErrorOpening"
        ELSE IF ~Implements(g, "GraphSetter") THEN "ErrorOpening"
        ELSE IF ~Implements(g, "GraphGetter") THEN "ErrorOpening"
        ELSE IF ~Implements(g, "GraphDB") THEN "ErrorOpening"
        ELSE IF ~in.loads THEN "ErrorRepos"
        ELSE IF ~in.verifies THEN "ErrorDatatypeUnavailable"
        ELSE "nil"

\* Whether Open gets as far as opening the graph store.
OpensGraph(in) ==
    /\ in.kvOpens
    /\ Implements([methods |-> in.methods, state |-> "open"], "OrderedKeyValueDB")
    /\ in.gOpens

\* Open, called once on a datastore: the engines it has opened stay open on
\* every return, and the Service exists only when no step failed.
Open(in) ==
    /\ ret = NoCall
    /\ ~service
    /\ engine.state = "none"
    /\ engine' = IF in.kvOpens THEN [methods |-> in.methods, state |-> "open"]
                 ELSE NoEngine
    /\ gengine' = IF OpensGraph(in) THEN [methods |-> in.gmethods, state |-> "open"]
                  ELSE NoEngine
    /\ service' = (OpenErrOf(in) = "nil")
    /\ ret' = OpenRet(in, OpenErrOf(in))
    /\ UNCHANGED <<svcVars, procVars, storeVars, iterVars>>

Accessors ==
    {"KeyValueDB", "KeyValueGetter", "KeyValueSetter",
     "OrderedKeyValueDB", "OrderedKeyValueGetter", "OrderedKeyValueSetter",
     "GraphDB", "GraphGetter", "GraphSetter", "Batcher"}

\* (mutant) Batcher returns no error when the engine cannot batch.
AccessorResultNoBatchError(name) ==
    CASE name \in {"GraphDB", "GraphGetter", "GraphSetter"} ->
           [handle |-> "gengine", err |-> "nil"]
      [] name = "Batcher" ->
           IF Implements(engine, "Batcher") THEN [handle |-> "engine", err |-> "nil"]
           ELSE [handle |-> "nil", err |-> "nil"]
      [] OTHER -> [handle |-> "engine", err |-> "nil"]

\* What the accessor returns: the handle and the error.  A type assertion
\* without the ok result panics when the engine lacks the interface.
AccessorResult(name) ==
    CASE name \in {"KeyValueDB", "KeyValueGetter", "KeyValueSetter"} ->
           IF Implements(engine, name) THEN [handle |-> "engine", err |-> "nil"]
           ELSE [handle |-> "nil", err |-> "panic"]
      [] name \in {"OrderedKeyValueDB", "OrderedKeyValueGetter", "OrderedKeyValueSetter"} ->
           [handle |-> "engine", err |-> "nil"]
      [] name \in {"GraphDB", "GraphGetter", "GraphSetter"} ->
           [handle |-> "gengine", err |-> "nil"]
      [] name = "Batcher" ->
           IF Implements(engine, "Batcher") THEN [handle |-> "engine", err |-> "nil"]
           ELSE [handle |-> "nil", err |-> "NoBatch"]

Accessor(name) ==
    /\ service
    /\ ret' = [op |-> name, in |-> engine.methods,
               handle |-> AccessorResult(name).handle, err |-> AccessorResult(name).err]
    /\ UNCHANGED <<svcVars, procVars, storeVars, openVars, iterVars>>

\* Shutdown closes s.engine.
Shutdown ==
    /\ service
    /\ engine' = [engine EXCEPT !.state = "closed"]
    /\ ret' = [op |-> "Shutdown", in |-> engine.methods, handle |-> "nil", err |-> "nil"]
    /\ UNCHANGED <<svcVars, procVars, storeVars, gengine, service, iterVars>>

\* Before Open: no engine, no Service, nothing stored, nothing called.
InitOpen ==
    /\ engine = NoEngine
    /\ gengine = NoEngine
    /\ service = FALSE
    /\ rq = NoQuery
    /\ pr = NoRange
    /\ srv = ServerInit
    /\ tomlConfig = NoConfig
    /\ calls = NoCalls
    /\ gni = NoNext
    /\ kv = <<>>
    /\ hist = <<>>
    /\ rawUsed = FALSE
    /\ storeOps = 0
    /\ hasRepos = FALSE
    /\ list = <<>>
    /\ newIDs = [repo |-> 1, version |-> 1]
    /\ uuidGen = <<>>
    /\ faults = 0
    /\ diskRegistry = <<>>
    /\ diskRepos = <<>>
    /\ ret = NoCall

NextOpen ==
    \/ \E in \in OpenInputs : Open(in)
    \/ \E name \in Accessors : Accessor(name)
    \/ Shutdown

SpecOpen == InitOpen /\ [][NextOpen]_vars

(***************************************************************************)
(* Local ids and their encoding.  An id is a 32-bit unsigned integer,      *)
(* written here as its two 16-bit halves: the value is hi * 65536 + lo.    *)
(***************************************************************************)
LocalID32Size == 4

Halves == {0, 1, 255, 256, 65535}
LocalIDs == [hi : Halves, lo : Halves]
MaxLocalID32 == [hi |-> 65535, lo |-> 65535]

\* (mutant) the least significant byte is written first.
PutUint32LittleEndian(v) == <<v.lo % 256, v.lo \div 256, v.hi % 256, v.hi \div 256>>

\* binary.BigEndian.PutUint32 into a buffer of 4 bytes:
\* byte(v >> 24), byte(v >> 16), byte(v >> 8), byte(v).
PutUint32(v) == <<v.hi \div 256, v.hi % 256, v.lo \div 256, v.lo % 256>>

\* binary.BigEndian.Uint32: b[3] | b[2] << 8 | b[1] << 16 | b[0] << 24, of
\* the first four bytes of b.
Uint32(b) == [hi |-> b[1] * 256 + b[2], lo |-> b[3] * 256 + b[4]]

\* (mutant) the decoder reports the length of what it was given.
InstanceIDFromBytesWholeLength(b) == [id |-> Uint32(b), length |-> Len(b)]

InstanceIDBytes(id) == SubSeq(PutUint32(id) \o <<0, 0, 0, 0>>, 1, LocalID32Size)
InstanceIDFromBytes(b) == [id |-> Uint32(b), length |-> LocalID32Size]
RepoIDBytes(id) == SubSeq(PutUint32(id) \o <<0, 0, 0, 0>>, 1, LocalID32Size)
RepoIDFromBytes(b) == [id |-> Uint32(b), length |-> LocalID32Size]
VersionIDBytes(id) == SubSeq(PutUint32(id) \o <<0, 0, 0, 0>>, 1, LocalID32Size)
VersionIDFromBytes(b) == [id |-> Uint32(b), length |-> LocalID32Size]

IDKinds == {"InstanceID", "RepoID", "VersionID"}

IDBytes(kind, id) ==
    CASE kind = "InstanceID" -> InstanceIDBytes(id)
      [] kind = "RepoID" -> RepoIDBytes(id)
      [] kind = "VersionID" -> VersionIDBytes(id)

IDFromBytes(kind, b) ==
    CASE kind = "InstanceID" -> InstanceIDFromBytes(b)
      [] kind = "RepoID" -> RepoIDFromBytes(b)
      [] kind = "VersionID" -> VersionIDFromBytes(b)

\* Bytes that may follow an encoded id in a key.
Trailing == {<<>>, <<0>>, <<255, 1>>}

\* A call of id.Bytes().
Bytes(kind, id) ==
    /\ ret' = [op |-> "Bytes", kind |-> kind, id |-> id, out |-> IDBytes(kind, id)]
    /\ UNCHANGED <<svcVars, backendVars>>

\* A call of the decoder of the kind on the bytes the last Bytes() call
\* returned, followed by some more bytes.
FromBytes(extra) ==
    /\ ret.op = "Bytes"
    /\ ret' = [op |-> "FromBytes", kind |-> ret.kind, id |-> ret.id,
               in |-> ret.out \o extra, out |-> IDFromBytes(ret.kind, ret.out \o extra)]
    /\ UNCHANGED <<svcVars, backendVars>>

(***************************************************************************)
(* Keys: byte strings, their order, and the TKeys of a class.              *)
(***************************************************************************)
tkeyMinByte == 0
tkeyStandardByte == 1
tkeyMaxByte == 255

SampleBytes == {0, 1, 255}
ByteStrings == UNION {[1..n -> SampleBytes] : n \in 0..MaxKeyLen}

\* The examples of the package documentation, as ASCII bytes.
composer == <<99, 111, 109, 112, 111, 115, 101, 114>>
computer == <<99, 111, 109, 112, 117, 116, 101, 114>>
house == <<104, 111, 117, 115, 101>>
household == <<104, 111, 117, 115, 101, 104, 111, 108, 100>>
Household == <<72, 111, 117, 115, 101, 104, 111, 108, 100>>
H2O == <<72, 50, 79>>
HOTEL == <<72, 79, 84, 69, 76>>
Words == {composer, computer, house, household, Household, H2O, HOTEL}

Min(a, b) == IF a <= b THEN a ELSE b

\* (mutant) shortlex: the shorter string first, bytes compared only between
\* strings of one length.
RECURSIVE BytesCompareShortlex(_, _)
BytesCompareShortlex(a, b) ==
    IF Len(a) < Len(b) THEN -1
    ELSE IF Len(a) > Len(b) THEN 1
    ELSE IF a = <<>> THEN 0
    ELSE IF Head(a) < Head(b) THEN -1
    ELSE IF Head(a) > Head(b) THEN 1
    ELSE BytesCompareShortlex(Tail(a), Tail(b))

\* bytes.Compare: -1, 0 or 1 as a is before, equal to or after b, byte by
\* byte, a string that ends first being before.
RECURSIVE BytesCompare(_, _)
BytesCompare(a, b) ==
    IF a = <<>> /\ b = <<>> THEN 0
    ELSE IF a = <<>> THEN -1
    ELSE IF b = <<>> THEN 1
    ELSE IF Head(a) < Head(b) THEN -1
    ELSE IF Head(a) > Head(b) THEN 1
    ELSE BytesCompare(Tail(a), Tail(b))

\* TKeyValues.Less.
Less(kvs, i, j) == BytesCompare(kvs[i].K, kvs[j].K) <= 0

\* (mutant) the standard marker is the same as the minimum marker.
NewTKeyMinMarker(class, tkey) == <<class, tkeyMinByte>> \o tkey

NewTKey(class, tkey) == <<class, tkeyStandardByte>> \o tkey
MinTKey(class) == <<class, tkeyMinByte>>
MaxTKey(class) == <<class, tkeyMaxByte>>

TKeyMinClass == 0
TKeyMaxClass == 255
Classes == {TKeyMinClass, 1, 254, TKeyMaxClass}

\* A call of Less on a slice of two pairs.
CallLess(a, b) ==
    /\ ret' = [op |-> "Less", a |-> a, b |-> b,
               out |-> Less(<<[K |-> a, V |-> <<>>], [K |-> b, V |-> <<>>]>>, 1, 2)]
    /\ UNCHANGED <<svcVars, backendVars>>

CallNewTKey(class, tkey) ==
    /\ ret' = [op |-> "NewTKey", class |-> class, body |-> tkey, out |-> NewTKey(class, tkey)]
    /\ UNCHANGED <<svcVars, backendVars>>

CallMinTKey(class) ==
    /\ ret' = [op |-> "MinTKey", class |-> class, body |-> <<>>, out |-> MinTKey(class)]
    /\ UNCHANGED <<svcVars, backendVars>>

CallMaxTKey(class) ==
    /\ ret' = [op |-> "MaxTKey", class |-> class, body |-> <<>>, out |-> MaxTKey(class)]
    /\ UNCHANGED <<svcVars, backendVars>>

(***************************************************************************)
(* Specification of the pure functions on ids and keys: they are called on *)
(* inputs of the sample sets, in any order.                                *)
(***************************************************************************)
InitKeys ==
    /\ InitStoreEmpty
    /\ hasRepos = TRUE
    /\ list = <<>>
    /\ newIDs = [repo |-> 1, version |-> 1]
    /\ uuidGen = <<>>
    /\ faults = 0
    /\ diskRegistry = <<>>
    /\ diskRepos = <<>>
    /\ ret = NoCall

NextKeys ==
    \/ \E kind \in IDKinds, id \in LocalIDs : Bytes(kind, id)
    \/ \E extra \in Trailing : FromBytes(extra)
    \/ \E a \in ByteStrings \cup Words, b \in ByteStrings \cup Words : CallLess(a, b)
    \/ \E c \in Classes, b \in ByteStrings : CallNewTKey(c, b)
    \/ \E c \in Classes : CallMinTKey(c)
    \/ \E c \in Classes : CallMaxTKey(c)

SpecKeys == InitKeys /\ [][NextKeys]_vars

(***************************************************************************)
(* Range reads.  Full keys are ordered as their bytes are: by class (data  *)
(* before tombstone), then instance, version and TKey, every field but the *)
(* TKey being of fixed width.                                              *)
(***************************************************************************)
RangeTKeys == {"k1", "k2", "k3"}
TKeyEnd == "k~"
TKeyBegin == "k!"
TKeyRank(k) ==
    CASE k = TKeyBegin -> 0 [] k = "k1" -> 1 [] k = "k2" -> 2 [] k = "k3" -> 3 [] k = TKeyEnd -> 4

ClassRank(c) == IF c = "D" THEN 1 ELSE 2

\* Lexicographic order of two full keys.
KeyBefore(a, b) ==
    \/ ClassRank(a[1]) < ClassRank(b[1])
    \/ a[1] = b[1] /\ a[2] < b[2]
    \/ a[1] = b[1] /\ a[2] = b[2] /\ a[3] < b[3]
    \/ a[1] = b[1] /\ a[2] = b[2] /\ a[3] = b[3] /\ TKeyRank(a[4]) < TKeyRank(b[4])

\* The keys of S in order, as the backend's iterator yields them.
RECURSIVE SortedKeys(_)
SortedKeys(S) ==
    IF S = {} THEN <<>>
    ELSE LET first == CHOOSE a \in S : \A b \in S \ {a} : KeyBefore(a, b)
         IN <<first>> \o SortedKeys(S \ {first})

RECURSIVE SortedTKeys(_)
SortedTKeys(S) ==
    IF S = {} THEN <<>>
    ELSE LET first == CHOOSE a \in S : \A b \in S \ {a} : TKeyRank(a) < TKeyRank(b)
         IN <<first>> \o SortedTKeys(S \ {first})

\* KeyRange: closed at the beginning, open at the end.
InKeyRange(key, kStart, kEnd) == ~KeyBefore(key, kStart) /\ KeyBefore(key, kEnd)
InTKeyRange(k, kStart, kEnd) == TKeyRank(kStart) <= TKeyRank(k) /\ TKeyRank(k) < TKeyRank(kEnd)

NilKV == [K |-> "nil", V |-> "nil"]

\* RawRangeQuery is called: the iterator is placed on the first key of the
\* range.
RawRangeQuery(kStart, kEnd, keysOnly) ==
    /\ rq.state = "none" /\ pr.state = "none"
    /\ rq' = [state |-> "running", kStart |-> kStart, kEnd |-> kEnd, keysOnly |-> keysOnly,
              pending |-> SortedKeys({key \in DOMAIN kv : InKeyRange(key, kStart, kEnd)}),
              sent |-> <<>>, cancelled |-> FALSE]
    /\ ret' = [op |-> "RawRangeQuery", err |-> "pending"]
    /\ UNCHANGED <<svcVars, procVars, storeVars, openVars, pr>>

\* (mutant) the query sends the keys it finds from the last to the first.
RawRangeSendLast ==
    /\ rq.state = "running" /\ rq.pending # <<>>
    /\ LET n == Len(rq.pending)
       IN rq' = [rq EXCEPT !.sent = Append(@, [K |-> rq.pending[n], V |-> "nil"]),
                           !.pending = SubSeq(@, 1, n - 1)]
    /\ UNCHANGED <<svcVars, procVars, storeVars, openVars, pr, ret>>

\* The query sends the next key-value of the range on out and the receiver
\* takes it.
RawRangeSend ==
    /\ rq.state = "running" /\ rq.pending # <<>>
    /\ LET key == Head(rq.pending)
       IN rq' = [rq EXCEPT !.sent = Append(@, [K |-> key,
                                               V |-> IF rq.keysOnly THEN "nil" ELSE kv[key]]),
                           !.pending = Tail(@)]
    /\ UNCHANGED <<svcVars, procVars, storeVars, openVars, pr, ret>>

\* The range is exhausted: the query sends nil on out and returns.
RawRangeSendNil ==
    /\ rq.state = "running" /\ rq.pending = <<>>
    /\ rq' = [rq EXCEPT !.sent = Append(@, NilKV), !.state = "returned"]
    /\ ret' = [op |-> "RawRangeQuery", err |-> "nil"]
    /\ UNCHANGED <<svcVars, procVars, storeVars, openVars, pr>>

\* The caller sends a value on cancel and the query takes it: it returns.
RawRangeCancel ==
    /\ rq.state = "running"
    /\ rq' = [rq EXCEPT !.cancelled = TRUE, !.state = "returned"]
    /\ ret' = [op |-> "RawRangeQuery", err |-> "Cancelled"]
    /\ UNCHANGED <<svcVars, procVars, storeVars, openVars, pr>>

\* (mutant) ProcessRange takes the records of its own version only.
ProcessRangeTodoOwnVersion(i, v, kStart, kEnd) ==
    SortedTKeys({k \in RangeTKeys : /\ InTKeyRange(k, kStart, kEnd)
                                    /\ DataKey(i, v, k) \in DOMAIN kv})

\* The TKeys ProcessRange has chunks for: those of the range that a Get in
\* the context finds, in order.
ProcessRangeTodo(i, v, kStart, kEnd) ==
    SortedTKeys({k \in RangeTKeys : /\ InTKeyRange(k, kStart, kEnd)
                                    /\ GetIn(kv, i, v, k) # NotFound})

\* ProcessRange is called in the data context of instance i at version v.
ProcessRange(i, v, kStart, kEnd) ==
    /\ rq.state = "none" /\ pr.state = "none"
    /\ pr' = [state |-> "running", inst |-> i, ver |-> v, kStart |-> kStart, kEnd |-> kEnd,
              todo |-> ProcessRangeTodo(i, v, kStart, kEnd), chunks |-> <<>>, err |-> "nil"]
    /\ ret' = [op |-> "ProcessRange", err |-> "pending"]
    /\ UNCHANGED <<svcVars, procVars, storeVars, openVars, rq>>

\* (mutant) ProcessRange goes on after the ChunkFunc returned an error.
ProcessChunkIgnoresErr(failed) ==
    /\ pr.state = "running" /\ pr.todo # <<>>
    /\ pr' = [pr EXCEPT !.chunks = Append(@, [K |-> Head(pr.todo), failed |-> failed,
                                           V |-> GetIn(kv, pr.inst, pr.ver, Head(pr.todo))]),
                        !.todo = Tail(@)]
    /\ UNCHANGED <<svcVars, procVars, storeVars, openVars, rq, ret>>

\* ProcessRange passes the next chunk to the ChunkFunc, which returns nil or
\* an error; on an error ProcessRange returns it.
ProcessChunk(failed) ==
    /\ pr.state = "running" /\ pr.todo # <<>>
    /\ pr' = [pr EXCEPT !.chunks = Append(@, [K |-> Head(pr.todo), failed |-> failed,
                                           V |-> GetIn(kv, pr.inst, pr.ver, Head(pr.todo))]),
                        !.todo = IF failed THEN @ ELSE Tail(@),
                        !.state = IF failed THEN "returned" ELSE @,
                        !.err = IF failed THEN "ChunkError" ELSE @]
    /\ ret' = IF failed THEN [op |-> "ProcessRange", err |-> "ChunkError"] ELSE ret
    /\ UNCHANGED <<svcVars, procVars, storeVars, openVars, rq>>

\* The range is exhausted: ProcessRange returns nil.
ProcessRangeReturn ==
    /\ pr.state = "running" /\ pr.todo = <<>>
    /\ pr' = [pr EXCEPT !.state = "returned"]
    /\ ret' = [op |-> "ProcessRange", err |-> "nil"]
    /\ UNCHANGED <<svcVars, procVars, storeVars, openVars, rq>>

(***************************************************************************)
(* Specification of range reads: the store holds what some Put and Delete  *)
(* calls of the three versions left in it, and one range is read.          *)
(***************************************************************************)
RangeVersions == {1, 2, 3}

\* The stores that n context Put and Delete calls can leave.
RECURSIVE StoresAfter(_)
StoresAfter(n) ==
    IF n = 0 THEN {<<>>}
    ELSE LET S == StoresAfter(n - 1)
         IN S \cup {PutIn(st, 1, v, k, "x") : st \in S, v \in RangeVersions, k \in RangeTKeys}
              \cup {DeleteIn(st, 1, v, k) : st \in S, v \in RangeVersions, k \in RangeTKeys}

RangeEnds == {DataKey(1, 1, "k1"), DataKey(1, 2, "k2"), TombstoneKey(1, 1, "k1"),
              TombstoneKey(1, 3, TKeyEnd)}

InitRange ==
    /\ hasRepos = TRUE
    /\ list \in {<<ChainRepo>>, <<ForkRepo>>}
    /\ newIDs = [repo |-> 2, version |-> 4]
    /\ uuidGen = <<>>
    /\ faults = 0
    /\ diskRegistry = Registry(list)
    /\ diskRepos = (1 :> list[1])
    /\ ret = NoCall
    /\ kv \in StoresAfter(MaxStored)
    /\ hist = <<>>
    /\ rawUsed = FALSE
    /\ storeOps = 0
    /\ engine = [methods |-> KVMethods, state |-> "open"]
    /\ gengine = [methods |-> GraphMethods, state |-> "open"]
    /\ service = TRUE
    /\ rq = NoQuery
    /\ pr = NoRange
    /\ srv = ServerInit
    /\ tomlConfig = NoConfig
    /\ calls = NoCalls
    /\ gni = NoNext

NextRange ==
    \/ \E kStart \in RangeEnds, kEnd \in RangeEnds, keysOnly \in BOOLEAN :
          RawRangeQuery(kStart, kEnd, keysOnly)
    \/ RawRangeSend
    \/ RawRangeSendNil
    \/ RawRangeCancel
    \/ \E v \in RangeVersions, kStart \in RangeTKeys, kEnd \in RangeTKeys \cup {TKeyEnd} :
          ProcessRange(1, v, kStart, kEnd)
    \/ \E failed \in BOOLEAN : ProcessChunk(failed)
    \/ ProcessRangeReturn

SpecRange == InitRange /\ [][NextRange]_vars


(***************************************************************************)
(* Package server: chunk handlers, the load monitor and Shutdown.  A chunk *)
(* handler is counted as running from the receive of its token to the send *)
(* that returns it, which is how the server itself counts active handlers. *)
(***************************************************************************)
\* (mutant) a chunk handler is started without a token.
TakeTokenNone ==
    /\ srv.running < MaxChunkHandlers + 1
    /\ srv' = [srv EXCEPT !.running = @ + 1]
    /\ UNCHANGED <<svcVars, ret, storeVars, openVars, iterVars, tomlConfig, calls, gni>>

\* <-server.HandlerToken, then the chunk handler is started.
TakeToken ==
    /\ srv.tokens > 0
    /\ srv' = [srv EXCEPT !.tokens = @ - 1, !.running = @ + 1]
    /\ UNCHANGED <<svcVars, ret, storeVars, openVars, iterVars, tomlConfig, calls, gni>>

\* The chunk handler finishes: server.HandlerToken <- 1.
ReturnToken ==
    /\ srv.running > 0
    /\ srv.tokens < MaxChunkHandlers
    /\ srv' = [srv EXCEPT !.tokens = @ + 1, !.running = @ - 1]
    /\ UNCHANGED <<svcVars, ret, storeVars, openVars, iterVars, tomlConfig, calls, gni>>

\* One tick of the load monitor started by init().
MonitorTick ==
    LET ticks == (srv.ticks + 1) % TicksPerSecond
        cur == IF ticks = 0 THEN 0 ELSE srv.curActiveHandlers
        numHandlers == MaxChunkHandlers - srv.tokens
    IN /\ srv' = [srv EXCEPT !.ticks = ticks,
                             !.ActiveHandlers = IF ticks = 0 THEN srv.curActiveHandlers ELSE @,
                             !.curActiveHandlers = IF numHandlers > cur THEN numHandlers ELSE cur]
       /\ UNCHANGED <<svcVars, ret, storeVars, openVars, iterVars, tomlConfig, calls, gni>>

\* server.Shutdown is called: waits := 0.
ServerShutdown ==
    /\ srv.pc = "serving"
    /\ srv' = [srv EXCEPT !.pc = "check", !.waits = 0]
    /\ UNCHANGED <<svcVars, ret, storeVars, openVars, iterVars, tomlConfig, calls, gni>>

\* (mutant) the loop of Shutdown does not give up after 20 waits.
ShutdownCheckNoLimit ==
    /\ srv.pc = "check"
    /\ LET active == MaxChunkHandlers - srv.tokens
       IN srv' = IF active > 0 /\ srv.waits <= ShutdownWaits
                 THEN [srv EXCEPT !.active = active, !.waits = @ + 1, !.pc = "sleep"]
                 ELSE [srv EXCEPT !.active = active, !.pc = "break"]
    /\ UNCHANGED <<svcVars, ret, storeVars, openVars, iterVars, tomlConfig, calls, gni>>

\* One pass of the loop of Shutdown up to its break or its Sleep.
ShutdownCheck ==
    /\ srv.pc = "check"
    /\ LET active == MaxChunkHandlers - srv.tokens
       IN srv' = IF srv.waits >= ShutdownWaits
                 THEN [srv EXCEPT !.active = active, !.pc = "break"]
                 ELSE IF active > 0
                 THEN [srv EXCEPT !.active = active, !.waits = @ + 1, !.pc = "sleep"]
                 ELSE [srv EXCEPT !.active = active, !.pc = "break"]
    /\ UNCHANGED <<svcVars, ret, storeVars, openVars, iterVars, tomlConfig, calls, gni>>

\* time.Sleep(1 * time.Second) returns.
ShutdownSleep ==
    /\ srv.pc = "sleep"
    /\ srv' = [srv EXCEPT !.pc = "check"]
    /\ UNCHANGED <<svcVars, ret, storeVars, openVars, iterVars, tomlConfig, calls, gni>>

\* After the loop: storage.Shutdown().
StorageShutdown ==
    /\ srv.pc = "break"
    /\ srv' = [srv EXCEPT !.pc = "closed"]
    /\ ret' = [op |-> "storage.Shutdown", err |-> "nil"]
    /\ UNCHANGED <<svcVars, storeVars, openVars, iterVars, tomlConfig, calls, gni>>

InitServer ==
    /\ InitStoreEmpty
    /\ hasRepos = TRUE
    /\ list = <<>>
    /\ newIDs = [repo |-> 1, version |-> 1]
    /\ uuidGen = <<>>
    /\ faults = 0
    /\ diskRegistry = <<>>
    /\ diskRepos = <<>>
    /\ ret = NoCall

NextServer ==
    \/ TakeToken
    \/ ReturnToken
    \/ MonitorTick
    \/ ServerShutdown
    \/ ShutdownCheck
    \/ ShutdownSleep
    \/ StorageShutdown

SpecServer == InitServer /\ [][NextServer]_vars

\* Shutdown with the chunk handlers alone (the load monitor writes nothing
\* that Shutdown reads).  Shutdown runs on: its goroutine is scheduled and its
\* Sleep returns.  No chunk handler is required to finish.
NextShutdown ==
    \/ TakeToken
    \/ ReturnToken
    \/ ServerShutdown
    \/ ShutdownCheck
    \/ ShutdownSleep
    \/ StorageShutdown

SpecShutdown ==
    /\ InitServer
    /\ [][NextShutdown]_vars
    /\ WF_vars(ShutdownCheck) /\ WF_vars(ShutdownSleep) /\ WF_vars(StorageShutdown)


(***************************************************************************)
(* Package server: the paths of the TOML configuration.  A path is known   *)
(* by whether it starts at the root and by its segments.                   *)
(***************************************************************************)
Segments == {".", "..", "d"}
SegmentSeqs == UNION {[1..n -> Segments] : n \in 0..MaxPathLen}
Paths == {[abs |-> a, segs |-> sg] : a \in BOOLEAN, sg \in SegmentSeqs} \ {[abs |-> FALSE, segs |-> <<>>]}
StorePaths == {[abs |-> FALSE, segs |-> <<"d">>], [abs |-> FALSE, segs |-> <<".", "d">>],
               [abs |-> TRUE, segs |-> <<"d">>], [abs |-> TRUE, segs |-> <<"..", ".">>]}
ConfigFiles == {[abs |-> TRUE, segs |-> <<"etc", "config.toml">>],
                [abs |-> TRUE, segs |-> <<"config.toml">>]}

\* filepath.Dir of a file path.
Dir(file) == [abs |-> file.abs, segs |-> SubSeq(file.segs, 1, Len(file.segs) - 1)]

\* filepath.Clean of a rooted path: "." goes, ".." takes the segment before
\* it with it, and goes alone at the root.
RECURSIVE CleanRooted(_, _)
CleanRooted(done, rest) ==
    IF rest = <<>> THEN done
    ELSE IF Head(rest) = "." THEN CleanRooted(done, Tail(rest))
    ELSE IF Head(rest) = ".."
         THEN CleanRooted(IF done = <<>> THEN <<>> ELSE SubSeq(done, 1, Len(done) - 1), Tail(rest))
    ELSE CleanRooted(Append(done, Head(rest)), Tail(rest))

\* filepath.Join(dir, path) for a rooted dir.
Join(dir, path) == [abs |-> TRUE, segs |-> CleanRooted(<<>>, dir.segs \o path.segs)]

\* (mutant) every path is joined with the directory, the absolute ones too.
ConvertToAbsoluteAlways(path, configDir) == Join(configDir, path)

\* A relative path becomes the directory of the configuration file joined
\* with it; an absolute path is returned as it is.
ConvertToAbsolute(path, configDir) ==
    IF path.abs THEN path ELSE Join(configDir, path)

\* The settings of one store: "path" is converted, the others are kept.
ConvertStore(store, configDir) ==
    [key \in DOMAIN store |->
        IF key = "path" THEN ConvertToAbsolute(store[key], configDir) ELSE store[key]]

ConvertPathsToAbsolute(configFile) ==
    /\ tomlConfig.loaded
    /\ LET configDir == Dir(configFile)
       IN tomlConfig' =
            [tomlConfig EXCEPT
                !.WebClient = ConvertToAbsolute(@, configDir),
                !.Logfile = ConvertToAbsolute(@, configDir),
                !.Store = [alias \in DOMAIN @ |-> ConvertStore(@[alias], configDir)]]
    /\ ret' = [op |-> "ConvertPathsToAbsolute", configFile |-> configFile, before |-> tomlConfig,
               err |-> "nil"]
    /\ UNCHANGED <<svcVars, storeVars, openVars, iterVars, srv, calls, gni>>

Engines == {"basholeveldb"}

InitConfig ==
    /\ hasRepos = TRUE
    /\ list = <<>>
    /\ newIDs = [repo |-> 1, version |-> 1]
    /\ uuidGen = <<>>
    /\ faults = 0
    /\ diskRegistry = <<>>
    /\ diskRepos = <<>>
    /\ ret = NoCall
    /\ kv = <<>>
    /\ hist = <<>>
    /\ rawUsed = FALSE
    /\ storeOps = 0
    /\ engine = NoEngine
    /\ gengine = NoEngine
    /\ service = FALSE
    /\ rq = NoQuery
    /\ pr = NoRange
    /\ srv = ServerInit
    /\ calls = NoCalls
    /\ gni = NoNext
    /\ \E web \in Paths, log \in Paths, path \in StorePaths, e \in Engines :
          tomlConfig = [loaded |-> TRUE, WebClient |-> web, Logfile |-> log,
                        Store |-> [alias \in {"foo"} |->
                                      [key \in {"engine", "path"} |->
                                          IF key = "path" THEN path ELSE e]]]

NextConfig == \E configFile \in ConfigFiles : ConvertPathsToAbsolute(configFile)

SpecConfig == InitConfig /\ [][NextConfig]_vars


(***************************************************************************)
(* Concurrent Service calls.  Lock and NewVersion are three statements     *)
(* each: the check of s.Repos, the change of the repo in memory (repo.Lock *)
(* after RepoFromUUID, or newChild) and repo.Put.  Neither function takes  *)
(* a mutex, so the statements of two callers interleave.  The change in    *)
(* memory and the write of repo.Put are each taken as one step.            *)
(***************************************************************************)
Callers == {1, 2}
CallOps == {"Lock", "NewVersion"}

Idle == [pc |-> "idle"]

\* The caller enters the Service method: s.Repos is checked.
CallService(c, op, u) ==
    /\ calls[c].pc \in {"idle", "returned"}
    /\ calls' = [calls EXCEPT ![c] =
                    IF hasRepos THEN [pc |-> "entered", op |-> op, arg |-> u, err |-> "nil",
                                      locked |-> FALSE]
                    ELSE [pc |-> "returned", op |-> op, arg |-> u, err |-> "NoRepos",
                          locked |-> FALSE]]
    /\ UNCHANGED <<svcVars, ret, storeVars, openVars, iterVars, srv, tomlConfig, gni>>

\* The change in memory: repo.Lock(u) on the repo of u, or newChild(parent).
\* A call whose change fails returns its error here.
CallMutate(c) ==
    /\ calls[c].pc = "entered"
    /\ LET u == calls[c].arg
           i == RepoFromUUID(u)
           err == IF calls[c].op = "Lock" THEN (IF i = 0 THEN "NotFound" ELSE "nil")
                  ELSE ReposNewChildErr(list, u)
       IN IF err # "nil"
          THEN /\ calls' = [calls EXCEPT ![c].pc = "returned", ![c].err = err]
               /\ ret' = Ret(calls[c].op, u, NilUUID, 0, 0, err)
               /\ UNCHANGED <<list, uuidGen, newIDs>>
          ELSE IF calls[c].op = "Lock"
          THEN /\ list' = [list EXCEPT ![i] = RepoLock(@, u)]
               /\ calls' = [calls EXCEPT ![c].pc = "mutated",
                                         ![c].locked = ~list[i].DAG[u].Locked]
               /\ UNCHANGED <<ret, uuidGen, newIDs>>
          ELSE /\ uuidGen # <<>>
               /\ list' = [list EXCEPT ![i] = RepoNewChild(@, u, Head(uuidGen), newIDs.version)]
               /\ uuidGen' = Tail(uuidGen)
               /\ newIDs' = [newIDs EXCEPT !.version = @ + 1]
               /\ calls' = [calls EXCEPT ![c].pc = "mutated"]
               /\ UNCHANGED ret
    /\ UNCHANGED <<hasRepos, faults, diskRegistry, diskRepos, storeVars, openVars, iterVars,
                   srv, tomlConfig, gni>>

\* repo.Put(s.kvSetter): the repo as it is in memory now is written, and the
\* call returns.
CallPut(c) ==
    /\ calls[c].pc = "mutated"
    /\ \E ok \in PutOutcomes :
          /\ diskRepos' = RepoPut(ok, list[RepoFromUUID(calls[c].arg)])
          /\ faults' = Spend(ok)
          /\ calls' = [calls EXCEPT ![c].pc = "returned", ![c].err = PutErr(ok)]
          /\ ret' = Ret(calls[c].op, calls[c].arg, NilUUID, 0, 0, PutErr(ok))
    /\ UNCHANGED <<hasRepos, list, uuidGen, newIDs, diskRegistry, storeVars, openVars, iterVars,
                   srv, tomlConfig, gni>>

\* One repo whose root is unlocked, as NewRepo leaves it, and no write fails.
InitCalls ==
    /\ hasRepos = TRUE
    /\ LET s == CHOOSE s \in UUIDSeqs(MaxVersions + 1) : TRUE
       IN /\ list = <<RepoNew(1, s[1], 1)>>
          /\ uuidGen = Tail(s)
    /\ newIDs = [repo |-> 2, version |-> 2]
    /\ faults = 0
    /\ diskRegistry = Registry(list)
    /\ diskRepos = (1 :> list[1])
    /\ ret = NoCall
    /\ kv = <<>>
    /\ hist = <<>>
    /\ rawUsed = FALSE
    /\ storeOps = 0
    /\ engine = [methods |-> KVMethods, state |-> "open"]
    /\ gengine = [methods |-> GraphMethods, state |-> "open"]
    /\ service = TRUE
    /\ rq = NoQuery
    /\ pr = NoRange
    /\ srv = ServerInit
    /\ tomlConfig = NoConfig
    /\ calls = [c \in Callers |-> Idle]
    /\ gni = NoNext

NextCalls ==
    \/ \E c \in Callers, op \in CallOps, u \in UUIDArgs : CallService(c, op, u)
    \/ \E c \in Callers : CallMutate(c)
    \/ \E c \in Callers : CallPut(c)

SpecCalls == InitCalls /\ [][NextCalls]_vars


(***************************************************************************)
(* getNextInstance: the caller runs RawRangeQuery over the data keys after *)
(* instance curID while a goroutine receives from the unbuffered channel   *)
(* ch, and cancels the query on the unbuffered channel cancel.  nextID,    *)
(* finished and err are shared by the two goroutines.  RawRangeQuery is    *)
(* any query its interface allows: it may return an error at any point.    *)
(***************************************************************************)
MaxVersionID == MaxInstanceID
InstanceIDs == 1..(MaxInstanceID - 1)
QueryErrors == {"nil", "Backend"}

\* The records one instance can hold: none, one data key, data keys of two
\* versions, or a tombstone alone.
InstanceRecords(i) ==
    {{}, {DataKey(i, 1, "k1")}, {DataKey(i, 1, "k1"), DataKey(i, 2, "k2")},
     {TombstoneKey(i, 1, "k1")}}

InstanceStores ==
    {[key \in UNION {f[i] : i \in InstanceIDs} |-> "x"] :
        f \in {g \in [InstanceIDs -> UNION {InstanceRecords(i) : i \in InstanceIDs}] :
                  \A i \in InstanceIDs : g[i] \in InstanceRecords(i)}}

\* The instance a data key belongs to (DataContext.InstanceFromKey).
InstanceFromKey(key) == key[2]

\* (mutant) the range begins at the keys of curID itself.
BegInstanceCurID(curID) == curID

\* The instance of begKey: curID + 1 in the width of an instance id.
BegInstance(curID) == (curID + 1) % (MaxInstanceID + 1)

\* getNextInstance is called: the goroutine is started and RawRangeQuery is
\* called with the range from begKey to endKey.
GetNextInstance(curID) ==
    /\ gni.state = "none" /\ rq.state = "none" /\ pr.state = "none"
    /\ LET begKey == DataKey(BegInstance(curID), 0, TKeyBegin)
           endKey == DataKey(MaxInstanceID, MaxVersionID, TKeyEnd)
       IN rq' = [state |-> "running", kStart |-> begKey, kEnd |-> endKey, keysOnly |-> TRUE,
                 pending |-> SortedKeys({key \in DOMAIN kv : InKeyRange(key, begKey, endKey)}),
                 sent |-> <<>>, cancelled |-> FALSE, err |-> "nil"]
    /\ gni' = [state |-> "running", curID |-> curID, main |-> "query", consumer |-> "recv",
               got |-> NilKV, nextID |-> 0, finished |-> FALSE, err |-> "nil",
               queryErr |-> "nil"]
    /\ UNCHANGED <<svcVars, ret, storeVars, openVars, pr, srv, tomlConfig, calls>>

\* The query sends the next key on ch and the goroutine receives it.
QuerySend ==
    /\ rq.state = "running" /\ rq.pending # <<>>
    /\ gni.state = "running" /\ gni.consumer = "recv"
    /\ LET item == [K |-> Head(rq.pending), V |-> "nil"]
       IN /\ rq' = [rq EXCEPT !.sent = Append(@, item), !.pending = Tail(@)]
          /\ gni' = [gni EXCEPT !.consumer = "got", !.got = item]
    /\ UNCHANGED <<svcVars, ret, storeVars, openVars, pr, srv, tomlConfig, calls>>

\* The range is exhausted: the query sends nil on ch, the goroutine receives
\* it, and the query returns.
QuerySendNil ==
    /\ rq.state = "running" /\ rq.pending = <<>>
    /\ gni.state = "running" /\ gni.consumer = "recv"
    /\ \E e \in QueryErrors :
          /\ rq' = [rq EXCEPT !.sent = Append(@, NilKV), !.state = "returned", !.err = e]
          /\ gni' = [gni EXCEPT !.consumer = "got", !.got = NilKV,
                                !.main = "assign", !.queryErr = e]
    /\ UNCHANGED <<svcVars, ret, storeVars, openVars, pr, srv, tomlConfig, calls>>

\* The goroutine sends on cancel, the query receives it and returns.
QueryCancel ==
    /\ rq.state = "running"
    /\ gni.state = "running" /\ gni.consumer = "cancel"
    /\ \E e \in QueryErrors :
          /\ rq' = [rq EXCEPT !.cancelled = TRUE, !.state = "returned", !.err = e]
          /\ gni' = [gni EXCEPT !.consumer = "done", !.main = "assign", !.queryErr = e]
    /\ UNCHANGED <<svcVars, ret, storeVars, openVars, pr, srv, tomlConfig, calls>>

\* The query returns an error without having sent nil.
QueryFail ==
    /\ rq.state = "running"
    /\ gni.state = "running"
    /\ rq' = [rq EXCEPT !.state = "returned", !.err = "Backend"]
    /\ gni' = [gni EXCEPT !.main = "assign", !.queryErr = "Backend"]
    /\ UNCHANGED <<svcVars, ret, storeVars, openVars, pr, srv, tomlConfig, calls>>

\* The goroutine acts on what it received: nil ends it with finished set; a
\* key sets nextID and err, and it goes on to cancel unless the key is of
\* instance curID.
ConsumerStep ==
    /\ gni.state = "running" /\ gni.consumer = "got"
    /\ gni' = IF gni.got = NilKV
              THEN [gni EXCEPT !.finished = TRUE, !.consumer = "done"]
              ELSE [gni EXCEPT !.nextID = InstanceFromKey(gni.got.K), !.err = "nil",
                               !.consumer = IF InstanceFromKey(gni.got.K) # gni.curID
                                            THEN "cancel" ELSE "recv"]
    /\ UNCHANGED <<svcVars, ret, storeVars, openVars, iterVars, srv, tomlConfig, calls>>

\* RawRangeQuery has returned: err = queryErr if it is not nil.
CallerAssign ==
    /\ gni.state = "running" /\ gni.main = "assign"
    /\ gni' = [gni EXCEPT !.err = IF gni.queryErr # "nil" THEN gni.queryErr ELSE @,
                          !.main = "wait"]
    /\ UNCHANGED <<svcVars, ret, storeVars, openVars, iterVars, srv, tomlConfig, calls>>

\* wg.Wait() returns once the goroutine is done, and getNextInstance returns.
CallerReturn ==
    /\ gni.state = "running" /\ gni.main = "wait" /\ gni.consumer = "done"
    /\ gni' = [gni EXCEPT !.state = "returned", !.main = "done"]
    /\ ret' = [op |-> "getNextInstance", nextID |-> gni.nextID, finished |-> gni.finished,
               err |-> gni.err]
    /\ UNCHANGED <<svcVars, storeVars, openVars, iterVars, srv, tomlConfig, calls>>

InitNext ==
    /\ hasRepos = TRUE
    /\ list = <<ChainRepo>>
    /\ newIDs = [repo |-> 2, version |-> 4]
    /\ uuidGen = <<>>
    /\ faults = 0
    /\ diskRegistry = Registry(list)
    /\ diskRepos = (1 :> list[1])
    /\ ret = NoCall
    /\ kv \in InstanceStores
    /\ hist = <<>>
    /\ rawUsed = FALSE
    /\ storeOps = 0
    /\ engine = [methods |-> KVMethods, state |-> "open"]
    /\ gengine = [methods |-> GraphMethods, state |-> "open"]
    /\ service = TRUE
    /\ rq = NoQuery
    /\ pr = NoRange
    /\ srv = ServerInit
    /\ tomlConfig = NoConfig
    /\ calls = NoCalls
    /\ gni = NoNext

NextNext ==
    \/ \E curID \in 0..(MaxInstanceID - 1) : GetNextInstance(curID)
    \/ QuerySend
    \/ QuerySendNil
    \/ QueryCancel
    \/ QueryFail
    \/ ConsumerStep
    \/ CallerAssign
    \/ CallerReturn

SpecNext == InitNext /\ [][NextNext]_vars

\* Both goroutines run on whenever they can take a step.
SpecNextFair == SpecNext /\ WF_vars(NextNext)

(***************************************************************************)
\* The index in l of the repo holding version u, 0 if none.
RepoIndex(l, u) ==
    IF \E i \in 1..Len(l) : u \in DOMAIN l[i].VersionMap
    THEN CHOOSE i \in 1..Len(l) : u \in DOMAIN l[i].VersionMap
    ELSE 0

IsLocked(l, u) == l[RepoIndex(l, u)].DAG[u].Locked

\* child is a version of parent's repo in l, recorded as a child of parent.
IsChildOf(l, parent, child) ==
    LET i == RepoIndex(l, parent)
    IN /\ child \in DOMAIN l[i].VersionMap
       /\ child \in DOMAIN l[i].DAG
       /\ \E k \in 1..Len(l[i].DAG[parent].Children) : l[i].DAG[parent].Children[k] = child
       /\ l[i].DAG[child].Parents = <<parent>>

\* A step that is a call of NewVersion on the UUID of an existing version.
NewVersionOnExisting ==
    ret'.op = "NewVersion" /\ hasRepos /\ RepoIndex(list, ret'.arg) # 0

\* C1 as stated: for an existing parent, NewVersion(parent) returns an error
\* if and only if the parent is not locked, and when the parent is locked it
\* succeeds and the returned child is in the version map as a child of parent.
C1_ErrorIffUnlocked ==
    [][NewVersionOnExisting =>
         /\ (ret'.err # "nil") <=> ~IsLocked(list, ret'.arg)
         /\ IsLocked(list, ret'.arg) => IsChildOf(list', ret'.arg, ret'.out)]_vars

\* C1 amended: for an existing parent, NewVersion(parent) returns the lock
\* error if and only if the parent is not locked, and then changes nothing;
\* when the parent is locked the only error it returns is the failure of the
\* write of the repo descriptor, and when it returns nil the returned child is
\* in the repo's version map as a child of that parent.
C1_LockErrorIffUnlocked ==
    [][NewVersionOnExisting =>
         /\ (ret'.err = "LockViolation") <=> ~IsLocked(list, ret'.arg)
         /\ ~IsLocked(list, ret'.arg) => list' = list /\ diskRepos' = diskRepos
         /\ IsLocked(list, ret'.arg) =>
              /\ ret'.err \in {"nil", "Backend"}
              /\ (ret'.err = "Backend") <=> (faults' = faults - 1)
              /\ ret'.err = "nil" => IsChildOf(list', ret'.arg, ret'.out)]_vars

C1_Witness ==
    /\ ret.op = "NewVersion" /\ ret.err = "nil"
    /\ IsChildOf(list, ret.arg, ret.out)

\* The versions an in-memory list of repos holds locked.
LockedIn(l) ==
    {u \in UNION {DOMAIN l[i].DAG : i \in 1..Len(l)} :
        \E i \in 1..Len(l) : u \in DOMAIN l[i].DAG /\ l[i].DAG[u].Locked}

AllVersions(l) == UNION {DOMAIN l[i].DAG : i \in 1..Len(l)}

\* C2: locked is terminal: no step of any operation takes a locked node to
\* unlocked (or removes it); the only change of a node's lock state is from
\* unlocked to locked.
C2_LockedIsTerminal ==
    [][\/ list' = list
       \/ /\ LockedIn(list) \subseteq LockedIn(list')
          /\ AllVersions(list) \subseteq AllVersions(list')]_vars

C2_Witness ==
    /\ ret.op \in {"NewVersion", "NewData", "ModifyData", "SaveRepo"}
    /\ ret.err = "nil"
    /\ LockedIn(list) # {}

Mutators == {"NewRepo", "NewVersion", "NewData", "ModifyData", "Lock"}

\* The index in list of the repo the last call was about.
Affected == IF ret.op = "NewRepo" THEN Len(list) ELSE RepoIndex(list, ret.arg)

\* C6: when a mutating operation has returned nil, the persisted descriptor
\* of the affected repo equals the in-memory repo, and after NewRepo the
\* persisted registry equals the in-memory registry.
C6_PersistedOnSuccess ==
    (ret.op \in Mutators /\ ret.err = "nil") =>
        /\ Affected \in 1..Len(list)
        /\ list[Affected].RepoID \in DOMAIN diskRepos
        /\ diskRepos[list[Affected].RepoID] = list[Affected]
        /\ ret.op = "NewRepo" => diskRegistry = Registry(list)

C6_Witness ==
    /\ ret.op = "Lock" /\ ret.err = "nil"
    /\ IsLocked(list, ret.arg)
    /\ diskRepos[list[Affected].RepoID].DAG[ret.arg].Locked

\* C7 as stated: when the persistence write of a mutation fails, the
\* in-memory repos and registry are what they were before the call; after a
\* NewRepo that failed to persist the registry the new repo is not in the
\* in-memory registry.
C7_RollbackOnFailedWrite ==
    [][ret'.err = "Backend" => list' = list]_vars

\* Reachability from the root through Children, computed in rounds.
RECURSIVE ReachFrom(_, _, _)
ReachFrom(repo, seen, n) ==
    IF n = 0 THEN seen
    ELSE LET next == seen \cup
                 {c \in DOMAIN repo.DAG :
                     \E p \in seen : \E k \in 1..Len(repo.DAG[p].Children) :
                         repo.DAG[p].Children[k] = c}
         IN IF next = seen THEN seen ELSE ReachFrom(repo, next, n - 1)

Reachable(repo) == ReachFrom(repo, {repo.Root}, Cardinality(DOMAIN repo.DAG))

Roots(repo) == {u \in DOMAIN repo.DAG : repo.DAG[u].Parents = <<>>}

\* C8: every repo has exactly one node without parents, its root, and the
\* versions reachable from the root through children are exactly the keys of
\* the version map; the root NewRepo has just made is unlocked.
C8_OneRootAllReachable ==
    /\ \A i \in 1..Len(list) :
          /\ Roots(list[i]) = {list[i].Root}
          /\ Reachable(list[i]) = DOMAIN list[i].VersionMap
    /\ (ret.op = "NewRepo" /\ ret.out # NilUUID) =>
          ~list[Len(list)].DAG[ret.out].Locked

C8_Witness ==
    \E i \in 1..Len(list) :
        /\ Cardinality(DOMAIN list[i].VersionMap) >= 2
        /\ Reachable(list[i]) = DOMAIN list[i].VersionMap

(***************************************************************************)
(* Properties of the versioned key-value contract.                         *)
(***************************************************************************)
\* Version a and its descendants: what the children of the DAG reach from a.
Descendants(a) ==
    LET r == CHOOSE r \in 1..Len(list) : \E u \in DOMAIN list[r].VersionMap : list[r].VersionMap[u] = a
        u == CHOOSE u \in DOMAIN list[r].VersionMap : list[r].VersionMap[u] = a
    IN {list[r].VersionMap[d] :
            d \in ReachFrom(list[r], {u}, Cardinality(DOMAIN list[r].DAG))}

\* The versions with a record of (i, k) among v and its ancestors.
Writers(i, v, k) == {a \in VersionIDs : v \in Descendants(a) /\ <<i, a, k>> \in DOMAIN hist}

\* What the closest of those versions last wrote: a value, or NotFound for a
\* tombstone or when there is no such version.
Visible(i, v, k) ==
    IF Writers(i, v, k) = {} THEN NotFound
    ELSE LET c == CHOOSE a \in Writers(i, v, k) :
                      \A b \in Writers(i, v, k) : a \in Descendants(b)
         IN hist[<<i, c, k>>]

\* C3: Get in the context of version v returns what was written at the
\* closest ancestor of v (v included) at which the tkey was put or
\* tombstoned, and reports not-found when that record is a tombstone or when
\* there is none; so a child that never wrote the tkey sees its parent's
\* value and a write at the child does not change Get at the parent.
C3_GetClosestAncestor ==
    ~rawUsed =>
        /\ \A i \in Instances, v \in VersionIDs, k \in TKeys :
              GetIn(kv, i, v, k) = Visible(i, v, k)
        /\ ret.op = "Get" => ret.out = Visible(ret.inst, ret.ver, ret.tkey)

C3_Witness ==
    /\ ~rawUsed
    /\ ret.op = "Get" /\ ret.out \in Values
    /\ <<ret.inst, ret.ver, ret.tkey>> \notin DOMAIN hist
    /\ ParentVersion(ret.ver) # 0
    /\ ParentVersion(ParentVersion(ret.ver)) # 0
    /\ <<ret.inst, ParentVersion(ret.ver), ret.tkey>> \in DOMAIN hist
    /\ <<ret.inst, ParentVersion(ParentVersion(ret.ver)), ret.tkey>> \in DOMAIN hist
    /\ hist[<<ret.inst, ParentVersion(ret.ver), ret.tkey>>] = ret.out
    /\ hist[<<ret.inst, ParentVersion(ParentVersion(ret.ver)), ret.tkey>>]
          \in Values \ {ret.out}

\* C4: Delete in the context of version v makes Get(v, tkey) not-found and
\* leaves Get(u, k) as it was for every key k and every version u that is
\* neither v nor a descendant of v.
C4_DeleteFrame ==
    [][ret'.op = "Delete" =>
         /\ GetIn(kv', ret'.inst, ret'.ver, ret'.tkey) = NotFound
         /\ \A i \in Instances, u \in VersionIDs \ Descendants(ret'.ver), k \in TKeys :
               GetIn(kv', i, u, k) = GetIn(kv, i, u, k)]_vars

C4_Witness ==
    /\ ret.op = "Delete"
    /\ GetIn(kv, ret.inst, ret.ver, ret.tkey) = NotFound
    /\ ParentVersion(ret.ver) # 0
    /\ GetIn(kv, ret.inst, ParentVersion(ret.ver), ret.tkey) \in Values

\* The (instance, version, tkey) holding both a value and a tombstone.
Doubled(store) ==
    {t \in Instances \X VersionIDs \X TKeys :
        /\ DataKey(t[1], t[2], t[3]) \in DOMAIN store
        /\ TombstoneKey(t[1], t[2], t[3]) \in DOMAIN store}

Tombstones(store) == {key \in DOMAIN store : key[1] = "T"}

\* C5: as long as only Put and Delete of the contexts have been called, no
\* (instance, version, tkey) has both a value and a tombstone; a Put removes
\* the tombstone of its own key, so that Get at that version returns the
\* value put; RawPut removes no tombstone.
C5_NoValueWithTombstone ==
    /\ [](~rawUsed => Doubled(kv) = {})
    /\ [][ret'.op = "Put" =>
            /\ TombstoneKey(ret'.inst, ret'.ver, ret'.tkey) \notin DOMAIN kv'
            /\ GetIn(kv', ret'.inst, ret'.ver, ret'.tkey) = ret'.out]_vars
    /\ [][ret'.op = "RawPut" => Tombstones(kv) \subseteq Tombstones(kv')]_vars

C5_Witness ==
    /\ ~rawUsed
    /\ ret.op = "Put" /\ ret.hadTomb
    /\ TombstoneKey(ret.inst, ret.ver, ret.tkey) \notin DOMAIN kv
    /\ GetIn(kv, ret.inst, ret.ver, ret.tkey) = ret.out

(***************************************************************************)
(* Properties of UUID resolution.                                          *)
(***************************************************************************)
\* The number of leading characters two UUIDs have in common.
CommonPrefix(u, w) ==
    LET S == {n \in 0..UUIDLen : \A j \in 1..n : u[j] = w[j]}
    IN CHOOSE n \in S : \A m \in S : m <= n

\* str resolves to u with the ids of u's repo and version.
ResolvesTo(str, u) ==
    LET found == RepoFromString(list, str)
    IN /\ found.err = "nil"
       /\ found.u = u
       /\ u \in DOMAIN list[found.repo].VersionMap

\* C9 as stated: for any two registered UUIDs with n leading characters in
\* common, every prefix of either of length at least n+1 resolves to that
\* UUID, and every prefix of length at most n is refused as ambiguous.
C9_AnyTwoUUIDs ==
    \A u \in Registered : \A w \in Registered \ {u}, n \in 0..UUIDLen :
        IF n > CommonPrefix(u, w)
        THEN ResolvesTo(SubSeq(u, 1, n), u)
        ELSE RepoFromString(list, SubSeq(u, 1, n)).err = "Ambiguous"

\* C9 amended: a prefix of a registered UUID u that is longer than what u has
\* in common with every other registered UUID resolves to exactly u, with the
\* id of u's repo and the version id of u; a prefix that two registered UUIDs
\* share is refused as ambiguous and yields neither UUID.
C9_UniquePrefixResolves ==
    /\ \A u \in Registered, n \in 0..UUIDLen :
          IF \A w \in Registered \ {u} : n > CommonPrefix(u, w)
          THEN ResolvesTo(SubSeq(u, 1, n), u)
          ELSE RepoFromString(list, SubSeq(u, 1, n)).err = "Ambiguous"
    /\ (ret.op = "NodeIDFromString" /\ ret.err = "nil") =>
          /\ ret.out \in Registered /\ HasPrefix(ret.out, ret.arg)
          /\ \A w \in Registered \ {ret.out} : Len(ret.arg) > CommonPrefix(ret.out, w)
          /\ ret.dID = list[RepoIndex(list, ret.out)].RepoID
          /\ ret.vID = list[RepoIndex(list, ret.out)].VersionMap[ret.out]
    /\ (ret.op = "NodeIDFromString" /\ ret.err = "Ambiguous") =>
          /\ ret.out = NilUUID
          /\ \E u \in Registered : \E w \in Registered \ {u} :
                HasPrefix(u, ret.arg) /\ HasPrefix(w, ret.arg)

C9_Witness ==
    /\ ret.op = "NodeIDFromString" /\ ret.err = "nil"
    /\ Len(ret.arg) < UUIDLen
    /\ ret.out # list[RepoIndex(list, ret.out)].Root
    /\ \E w \in Registered \ {ret.out} : Len(ret.arg) = CommonPrefix(ret.out, w) + 1

(***************************************************************************)
(* C10.  Opening a backend that implements only the unordered              *)
(* KeyValueGetter and KeyValueSetter capabilities succeeds; on the         *)
(* resulting Service, OrderedKeyValueDB returns a capability-missing error *)
(* while KeyValueDB returns a handle.  Stated for a datastore whose every  *)
(* other step of Open succeeds.                                            *)
(***************************************************************************)
UnorderedOnly(in) ==
    /\ in.kvOpens
    /\ in.methods = {"Store", "Get", "Set"}
    /\ in.gOpens
    /\ in.gmethods = GraphMethods
    /\ in.loads
    /\ in.verifies

C10_UnorderedBackendOpens ==
    (ret.op = "Open" /\ UnorderedOnly(ret.in)) =>
        /\ ret.err = "nil"
        /\ service
        /\ AccessorResult("OrderedKeyValueDB").err # "nil"
        /\ AccessorResult("KeyValueDB") = [handle |-> "engine", err |-> "nil"]

\* What the code does with such a backend: Open returns ErrorOpening and no
\* Service, with the key-value engine it opened still open.
C10_UnorderedBackendRejected ==
    (ret.op = "Open" /\ UnorderedOnly(ret.in)) =>
        /\ ret.err = "ErrorOpening"
        /\ ~service
        /\ engine = [methods |-> {"Store", "Get", "Set"}, state |-> "open"]
        /\ gengine = NoEngine

C10_Witness == ret.op = "Open" /\ UnorderedOnly(ret.in)

(***************************************************************************)
(* Properties of Open, the accessors and Shutdown.                         *)
(***************************************************************************)
\* The engine an accessor hands out.
HeldBy(name) ==
    IF name \in {"GraphDB", "GraphGetter", "GraphSetter"} THEN gengine ELSE engine

\* C11: an accessor returns an error exactly when the engine the Service
\* holds lacks the capability, returns a handle of that engine otherwise,
\* never returns a nil handle with a nil error, and touches neither the
\* engines nor anything stored.
C11_AccessorErrorIffMissing ==
    /\ [](ret.op \in Accessors =>
            /\ (ret.err # "nil") <=> ~Implements(HeldBy(ret.op), ret.op)
            /\ ret.err = "nil" =>
                 /\ ret.handle = (IF HeldBy(ret.op) = gengine THEN "gengine" ELSE "engine")
                 /\ Implements(HeldBy(ret.op), ret.op)
            /\ ~(ret.handle = "nil" /\ ret.err = "nil"))
    /\ [][ret'.op \in Accessors => UNCHANGED <<svcVars, storeVars, openVars>>]_vars

C11_Witness ==
    /\ ret.op = "Batcher" /\ ret.err # "nil" /\ ret.handle = "nil"
    /\ ~Implements(engine, "Batcher")

\* Whether the engines open with every capability Open asks of them.
BackendOpens(in) ==
    /\ in.kvOpens
    /\ {"Store", "Get", "OrderedGet", "Set", "OrderedSet"} \subseteq in.methods
    /\ in.gOpens
    /\ {"Store", "GraphGet", "GraphSet"} \subseteq in.gmethods

\* C12: Open returns exactly one of a Service and an OpenError, and the type
\* of the error is that of the first failing step in the order: open the
\* backend and check its capabilities (ErrorOpening), load the registry
\* (ErrorRepos), verify the compiled-in datatypes (ErrorDatatypeUnavailable).
C12_FirstFailingStep ==
    ret.op = "Open" =>
        /\ service <=> (ret.err = "nil")
        /\ ret.err \in {"nil", "ErrorOpening", "ErrorRepos", "ErrorDatatypeUnavailable"}
        /\ (ret.err = "ErrorOpening") <=> ~BackendOpens(ret.in)
        /\ (ret.err = "ErrorRepos") <=> (BackendOpens(ret.in) /\ ~ret.in.loads)
        /\ (ret.err = "ErrorDatatypeUnavailable") <=>
              (BackendOpens(ret.in) /\ ret.in.loads /\ ~ret.in.verifies)

C12_Witness ==
    /\ ret.op = "Open" /\ ret.err = "ErrorDatatypeUnavailable" /\ ~service
    /\ BackendOpens(ret.in) /\ ret.in.loads

\* C13: an Open that returns an error leaves no engine open.
C13_ErrorExitClosesHandles ==
    (ret.op = "Open" /\ ret.err # "nil") =>
        engine.state # "open" /\ gengine.state # "open"

\* What the code does: every engine Open had opened is still open when it
\* returns an error.
C13_ErrorExitLeavesHandlesOpen ==
    (ret.op = "Open" /\ ret.err # "nil") =>
        /\ ret.in.kvOpens => engine.state = "open"
        /\ OpensGraph(ret.in) => gengine.state = "open"

\* C14: after Shutdown both engines of the Service are closed.
C14_ShutdownClosesBoth ==
    ret.op = "Shutdown" => engine.state = "closed" /\ gengine.state = "closed"

\* What the code does: Shutdown closes the key-value engine and leaves the
\* graph engine open.
C14_ShutdownClosesKVOnly ==
    ret.op = "Shutdown" => engine.state = "closed" /\ gengine.state = "open"

(***************************************************************************)
(* Properties of the id encoding and of keys.                              *)
(***************************************************************************)
\* Numeric order of two ids.
IDBefore(a, b) == a.hi < b.hi \/ (a.hi = b.hi /\ a.lo < b.lo)

\* s precedes t in the lexicographic order of the package documentation: s
\* is a proper prefix of t, or at the first position where they differ the
\* byte of s is the smaller.
Precedes(s, t) ==
    \/ Len(s) < Len(t) /\ SubSeq(t, 1, Len(s)) = s
    \/ \E i \in 1..Min(Len(s), Len(t)) :
          /\ \A j \in 1..(i - 1) : s[j] = t[j]
          /\ s[i] < t[i]

\* C18: Bytes() of an id is exactly 4 bytes, most significant first (so the
\* byte order of two encodings is the numeric order of the ids), and the
\* decoder applied to them, whatever follows them, returns the id and 4.
C18_RoundTrip ==
    /\ ret.op = "Bytes" =>
          /\ Len(ret.out) = 4
          /\ \A i \in 1..4 : ret.out[i] \in 0..255
          /\ ret.out[1] * 256 + ret.out[2] = ret.id.hi
          /\ ret.out[3] * 256 + ret.out[4] = ret.id.lo
          /\ \A other \in LocalIDs :
                IDBefore(ret.id, other) => Precedes(ret.out, IDBytes(ret.kind, other))
    /\ ret.op = "FromBytes" =>
          /\ ret.out.id = ret.id
          /\ ret.out.length = 4

C18_Witness ==
    /\ ret.op = "FromBytes" /\ ret.id = MaxLocalID32 /\ Len(ret.in) > 4
    /\ ret.out = [id |-> MaxLocalID32, length |-> 4]

\* The pairs of the documentation's examples, the first before the second.
Examples ==
    {<<composer, computer>>, <<house, household>>, <<Household, house>>, <<H2O, HOTEL>>}

\* C19: key order is byte-wise lexicographic order, never length first: the
\* documented examples are in order, and TKeyValues.Less of two pairs is
\* true exactly when the TKey of the first precedes the TKey of the second.
C19_LessIsLexOrder ==
    /\ \A e \in Examples : Precedes(e[1], e[2]) /\ BytesCompare(e[1], e[2]) = -1
    /\ ret.op = "Less" => (ret.out <=> Precedes(ret.a, ret.b))

\* What the code does: Less is also true of two pairs with the same TKey.
C19_LessIsLexOrderOrEqual ==
    /\ \A e \in Examples : Precedes(e[1], e[2]) /\ BytesCompare(e[1], e[2]) = -1
    /\ ret.op = "Less" => (ret.out <=> (Precedes(ret.a, ret.b) \/ ret.a = ret.b))
    /\ \A a \in ByteStrings \cup Words, b \in ByteStrings \cup Words :
          (BytesCompare(a, b) = -1) <=> Precedes(a, b)

\* k is in the range that starts at lo and ends before hi.
InRange(k, lo, hi) == BytesCompare(lo, k) <= 0 /\ BytesCompare(k, hi) < 0

\* C20: for every class c and body b, MinTKey(c) < NewTKey(c, b) < MaxTKey(c);
\* for classes c1 < c2, MaxTKey(c1) < MinTKey(c2); so a TKey built by NewTKey
\* lies in the range [MinTKey(c), MaxTKey(c)) of its own class and of no other.
C20_ClassRange ==
    /\ ret.op = "NewTKey" =>
          /\ Precedes(MinTKey(ret.class), ret.out)
          /\ Precedes(ret.out, MaxTKey(ret.class))
          /\ \A c \in Classes :
                InRange(ret.out, MinTKey(c), MaxTKey(c)) <=> (c = ret.class)
    /\ ret.op = "MaxTKey" =>
          \A c \in Classes : ret.class < c => Precedes(ret.out, MinTKey(c))
    /\ ret.op = "MinTKey" =>
          \A c \in Classes : c < ret.class => Precedes(MaxTKey(c), ret.out)

C20_Witness ==
    /\ ret.op = "NewTKey" /\ ret.class = TKeyMaxClass
    /\ Len(ret.body) = MaxKeyLen /\ \A i \in 1..Len(ret.body) : ret.body[i] = 255
    /\ InRange(ret.out, MinTKey(ret.class), MaxTKey(ret.class))

(***************************************************************************)
(* Range reads: claims C15, C16, C17                                       *)
(***************************************************************************)
\* The key-values of the range of the running query, in key order.
RangeItems ==
    LET keys == SortedKeys({key \in DOMAIN kv : InKeyRange(key, rq.kStart, rq.kEnd)})
    IN [n \in 1..Len(keys) |-> [K |-> keys[n], V |-> IF rq.keysOnly THEN "nil" ELSE kv[keys[n]]]]

IsPrefix(s, t) == Len(s) <= Len(t) /\ SubSeq(t, 1, Len(s)) = s

\* C15: RawRangeQuery sends the key-values of the range in key order, each
\* once, then one nil when the range is exhausted and nothing after it; a
\* query that returns without a cancel has sent all of them and the nil; a
\* cancelled query sends nothing more and returns.
C15_OrderedThenOneNil ==
    /\ [](rq.state # "none" =>
            /\ \/ IsPrefix(rq.sent, RangeItems)
               \/ rq.sent = RangeItems \o <<NilKV>>
            /\ \A n \in 1..Len(rq.sent) : \A m \in 1..Len(rq.sent) :
                  n < m /\ rq.sent[m] # NilKV => KeyBefore(rq.sent[n].K, rq.sent[m].K)
            /\ rq.state = "returned" /\ ~rq.cancelled => rq.sent = RangeItems \o <<NilKV>>
            /\ rq.cancelled => rq.state = "returned" /\ IsPrefix(rq.sent, RangeItems))
    /\ [][rq.state = "returned" => rq' = rq]_vars

C15_Witness ==
    /\ rq.state = "returned" /\ ~rq.cancelled
    /\ Len(rq.sent) >= 3
    /\ rq.sent[Len(rq.sent)] = NilKV
    /\ \E n \in 1..Len(rq.sent) : rq.sent[n].K[1] = "T"

\* The versions among pr.ver and its ancestors that hold a record of k.
Holders(k) ==
    {a \in RangeVersions : /\ pr.ver \in Descendants(a)
                           /\ \/ DataKey(pr.inst, a, k) \in DOMAIN kv
                              \/ TombstoneKey(pr.inst, a, k) \in DOMAIN kv}

\* The TKeys of the range that are visible at pr.ver: the closest version
\* that holds a record of the TKey holds a value.
VisibleInRange ==
    {k \in RangeTKeys :
        /\ InTKeyRange(k, pr.kStart, pr.kEnd)
        /\ \E c \in Holders(k) : /\ \A b \in Holders(k) : c \in Descendants(b)
                                 /\ DataKey(pr.inst, c, k) \in DOMAIN kv}

ChunkKeys == {pr.chunks[n].K : n \in 1..Len(pr.chunks)}

\* C16: the chunks ProcessRange dispatches are for TKeys of the range that
\* are visible at its version, never for a TKey tombstoned at that version,
\* in strictly increasing order of TKey with none skipped and none twice;
\* when it returns nil every visible TKey of the range had its chunk.
C16_OneChunkPerVisibleTKey ==
    pr.state # "none" =>
        /\ ChunkKeys \subseteq VisibleInRange
        /\ \A k \in RangeTKeys :
              TombstoneKey(pr.inst, pr.ver, k) \in DOMAIN kv => k \notin ChunkKeys
        /\ \A n \in 1..Len(pr.chunks) :
              Cardinality({k \in VisibleInRange : TKeyRank(k) < TKeyRank(pr.chunks[n].K)}) = n - 1
        /\ pr.state = "returned" /\ pr.err = "nil" =>
              ChunkKeys = VisibleInRange /\ Len(pr.chunks) = Cardinality(VisibleInRange)

C16_Witness ==
    /\ pr.state = "returned" /\ pr.err = "nil"
    /\ \E n \in 1..Len(pr.chunks) : DataKey(pr.inst, pr.ver, pr.chunks[n].K) \notin DOMAIN kv
    /\ \E k \in RangeTKeys :
          /\ InTKeyRange(k, pr.kStart, pr.kEnd)
          /\ TombstoneKey(pr.inst, pr.ver, k) \in DOMAIN kv
          /\ \E a \in RangeVersions : a # pr.ver /\ a \in Holders(k)

\* C17: once the ChunkFunc has returned an error for a chunk, ProcessRange
\* dispatches no further chunk and returns that error; it returns nil only
\* when no chunk failed.
C17_ChunkErrorStopsAndPropagates ==
    /\ [](pr.state # "none" =>
            /\ \A n \in 1..Len(pr.chunks) : pr.chunks[n].failed => n = Len(pr.chunks)
            /\ (\E n \in 1..Len(pr.chunks) : pr.chunks[n].failed) =>
                  /\ pr.state = "returned"
                  /\ pr.err = "ChunkError"
                  /\ ret = [op |-> "ProcessRange", err |-> "ChunkError"]
            /\ pr.state = "returned" /\ pr.err = "nil" =>
                  \A n \in 1..Len(pr.chunks) : ~pr.chunks[n].failed)
    /\ [][pr.state = "returned" => pr' = pr]_vars

C17_Witness ==
    /\ pr.state = "returned" /\ pr.err = "ChunkError"
    /\ pr.chunks[Len(pr.chunks)].failed
    /\ VisibleInRange \ ChunkKeys # {}

(***************************************************************************)
(* Service: claims C22, C26, C28                                           *)
(***************************************************************************)
\* The call of this step is Lock(u) on a node that is locked already.
Relock == /\ ret'.op = "Lock"
          /\ RepoFromUUID(ret'.arg) # 0
          /\ list[RepoFromUUID(ret'.arg)].DAG[ret'.arg].Locked

\* C22 (as stated): Lock(u) on a node that is locked already returns nil and
\* leaves the node's lock state, parents and children and the repo's version
\* map unchanged.
C22_RelockReturnsNil ==
    [][Relock => ret'.err = "nil" /\ list' = list]_vars

\* C22 (amended): Lock(u) on a node that is locked already leaves the repos in
\* memory unchanged and writes the repo descriptor again; it returns nil when
\* that write succeeds and the error of the write when it fails.
C22_RelockKeepsNode ==
    [][Relock =>
         /\ list' = list
         /\ diskRegistry' = diskRegistry
         /\ \/ ret'.err = "nil" /\ diskRepos' = RepoPut(TRUE, list[RepoFromUUID(ret'.arg)])
            \/ ret'.err = "Backend" /\ diskRepos' = diskRepos /\ faults' = faults - 1]_vars

\* The last call was a Lock of a node that has a child, so of a node that was
\* locked before the call.
C22_Witness ==
    /\ ret.op = "Lock" /\ ret.err = "nil"
    /\ RepoFromUUID(ret.arg) # 0
    /\ list[RepoFromUUID(ret.arg)].DAG[ret.arg].Locked
    /\ list[RepoFromUUID(ret.arg)].DAG[ret.arg].Children # <<>>

\* C26: after NewRepo has returned, every repo of the persisted registry has
\* a persisted descriptor and the persisted registry is the registry of the
\* repos in memory.
C26_RegistryMatchesDescriptors ==
    ret.op = "NewRepo" =>
        /\ \A i \in DOMAIN diskRegistry : diskRegistry[i].RepoID \in DOMAIN diskRepos
        /\ diskRegistry = Registry(list)

PrePersistErrors == {"NoRepos", "NotFound", "LockViolation", "DataError"}

\* C28: a NewVersion, NewData, ModifyData, Lock or SaveRepo that returns an
\* error of a step before persistence issues no write: the persisted registry
\* and descriptors are unchanged and no write has failed.
C28_EarlyErrorWritesNothing ==
    [][ret'.op \in {"NewVersion", "NewData", "ModifyData", "Lock", "SaveRepo"}
            /\ ret'.err \in PrePersistErrors
         => /\ diskRegistry' = diskRegistry
            /\ diskRepos' = diskRepos
            /\ faults' = faults]_vars

\* A NewData has failed in memory while the persisted descriptor of the repo
\* is not the repo in memory: a write would have changed it.
C28_Witness ==
    /\ ret.op = "NewData" /\ ret.err = "DataError"
    /\ RepoFromUUID(ret.arg) # 0
    /\ LET repo == list[RepoFromUUID(ret.arg)]
       IN repo.RepoID \in DOMAIN diskRepos /\ diskRepos[repo.RepoID] # repo

C27_ShutdownDrainsThenCloses ==
    /\ [](srv.waits <= ShutdownWaits)
    /\ [](srv.pc \in {"break", "closed"} => srv.active = 0 \/ srv.waits = ShutdownWaits)
    /\ [][srv.pc = "check" /\ srv'.pc = "sleep" =>
             srv'.waits = srv.waits + 1 /\ srv.tokens < MaxChunkHandlers]_vars
    /\ (srv.pc # "serving") ~> (srv.pc = "closed")

\* storage.Shutdown was called after 20 waits with a handler still holding
\* its token.
C27_Witness ==
    /\ srv.pc = "closed"
    /\ srv.waits = ShutdownWaits
    /\ srv.tokens < MaxChunkHandlers

(***************************************************************************)
(* Configuration paths: claim C23                                          *)
(***************************************************************************)
Dotless(path) == \A n \in 1..Len(path.segs) : path.segs[n] \notin {".", ".."}

\* What the claim asks of one path setting: before and after a call with
\* configFile.
Converted(before, after, configFile) ==
    IF before.abs THEN after = before
    ELSE /\ after = Join(Dir(configFile), before)
         /\ after.abs
         /\ Dotless(after)
         /\ Dotless(before) => after.segs = Dir(configFile).segs \o before.segs

\* C23: after ConvertPathsToAbsolute(configFile) every relative path setting
\* is the directory of configFile joined with it, every absolute one is as
\* it was, every other store setting is as it was, and converting what was
\* converted changes nothing.
C23_RelativePathsJoined ==
    ret.op = "ConvertPathsToAbsolute" =>
        /\ Converted(ret.before.WebClient, tomlConfig.WebClient, ret.configFile)
        /\ Converted(ret.before.Logfile, tomlConfig.Logfile, ret.configFile)
        /\ DOMAIN tomlConfig.Store = DOMAIN ret.before.Store
        /\ \A alias \in DOMAIN tomlConfig.Store :
              /\ DOMAIN tomlConfig.Store[alias] = DOMAIN ret.before.Store[alias]
              /\ Converted(ret.before.Store[alias]["path"], tomlConfig.Store[alias]["path"],
                           ret.configFile)
              /\ tomlConfig.Store[alias]["engine"] = ret.before.Store[alias]["engine"]
        /\ \A configFile \in ConfigFiles :
              /\ ConvertToAbsolute(tomlConfig.WebClient, Dir(configFile)) = tomlConfig.WebClient
              /\ ConvertToAbsolute(tomlConfig.Logfile, Dir(configFile)) = tomlConfig.Logfile
              /\ \A alias \in DOMAIN tomlConfig.Store :
                    ConvertStore(tomlConfig.Store[alias], Dir(configFile)) = tomlConfig.Store[alias]

\* A first conversion has rewritten a relative path with a "." segment and
\* kept an absolute path that is not clean.
C23_Witness ==
    /\ ret.op = "ConvertPathsToAbsolute"
    /\ ~ret.before.WebClient.abs /\ ~Dotless(ret.before.WebClient)
    /\ tomlConfig.WebClient # ret.before.WebClient
    /\ ret.before.Logfile.abs /\ ~Dotless(ret.before.Logfile)
    /\ ~ret.before.Store["foo"]["path"].abs

(***************************************************************************)
(* Concurrent Service calls: claim C24                                     *)
(***************************************************************************)
\* The caller has changed the repo in memory and has not yet written it.
InSection(c) == calls[c].pc = "mutated"

\* C24: two calls that change the same node are never both between their
\* change in memory and their write; what is persisted when no call is in
\* progress is the repo in memory.
C24_MutationsExclusive ==
    /\ \A c \in Callers, d \in Callers :
          c # d /\ InSection(c) /\ InSection(d) => calls[c].arg # calls[d].arg
    /\ (\A c \in Callers : calls[c].pc \in {"idle", "returned"}) => diskRepos[1] = list[1]

\* What holds with the change in memory and the write taken as one step
\* each: a Lock that finds the node locked changes nothing, and the repo
\* persisted when no call is in progress is the repo in memory.
C24_LastWriteIsCurrent ==
    /\ \A c \in Callers, d \in Callers :
          /\ c # d /\ InSection(c) /\ InSection(d)
          /\ calls[c].op = "Lock" /\ calls[d].op = "Lock" /\ calls[c].arg = calls[d].arg
          => ~(calls[c].locked /\ calls[d].locked)
    /\ (\A c \in Callers : calls[c].pc \in {"idle", "returned"}) => diskRepos[1] = list[1]

(***************************************************************************)
(* getNextInstance: claims C25, C29, C30                                   *)
(***************************************************************************)
\* C25: a getNextInstance that was called returns.
C25_AlwaysReturns == (gni.state = "running") ~> (gni.state = "returned")

\* The instances after curID that have a data key.
LaterInstances == {i \in InstanceIDs : i > gni.curID /\ \E key \in DOMAIN kv :
                                                          key[1] = "D" /\ key[2] = i}

C30_QueryErrorReturned ==
    (rq.state = "returned" /\ rq.err # "nil" /\ gni.state = "running")
        ~> (gni.state = "returned" /\ gni.err # "nil")

\* What holds of the error instead: a getNextInstance that does return after
\* a failed query returns an error.
C30_ErrorKeptOnReturn ==
    gni.state = "returned" /\ rq.err # "nil" => gni.err # "nil" /\ ret.err # "nil"

====
